---------------------------- MODULE Spec2Model ----------------------------
(***************************************************************************)
(* A model of confconv, the configuration file converter of the tutorial   *)
(* (chapters 03 to 06).  Text (paths, format names, file contents) is a    *)
(* sequence of one-character strings, so that the code's string functions  *)
(* (to_lowercase, rsplit, the parsers and the serializers) are computed    *)
(* character by character.                                                 *)
(***************************************************************************)
EXTENDS Integers, Sequences, FiniteSets, TLC

VARIABLES
    idIn,         \* format identifier: the string handed to the function
    idOp,         \* format identifier: which function was called ("none" before)
    idOut,        \* format identifier: the Option<Format> it returned
    args,         \* per invocation: the parsed command line (cli.rs)
    pc,           \* per invocation: where its run function stands
    from_format,  \* per invocation: the resolved source format (an Option)
    content,      \* per invocation: the text read from the input (an Option)
    value,        \* per invocation: the decoded Value (an Option)
    converted,    \* per invocation: the encoded text (an Option)
    ret,          \* per invocation: what run returned (an Option of a Result)
    exit_code,    \* per invocation: the exit status of the process (an Option)
    steps,        \* per invocation: the steps run did, in order
    fs,           \* the files: path -> Option of the file's text
    stdin,        \* the text on standard input (None: reading it fails)
    stdin_read,   \* whether standard input has been read from
    stdout,       \* what was printed on standard output, in order
    stderr        \* what was printed on standard error, in order

idVars == <<idIn, idOp, idOut>>

procVars == <<args, pc, from_format, content, value, converted, ret, exit_code, steps>>

ioVars == <<fs, stdin, stdin_read, stdout, stderr>>

vars == <<idIn, idOp, idOut, args, pc, from_format, content, value, converted, ret,
          exit_code, steps, fs, stdin, stdin_read, stdout, stderr>>

(***************************************************************************)
(* Option<T>: None is the empty sequence, Some(x) the one-element one.     *)
(***************************************************************************)
None == <<>>

Some(x) == <<x>>

IsSome(o) == Len(o) = 1

Unwrap(o) == o[1]

\* A mutant of OrElse: the alternative is taken whenever it is Some.
OrElse_AlternativeFirst(o, alt) == IF IsSome(alt) THEN alt ELSE o

\* Option::or_else(f): self when it is Some, otherwise the alternative.
OrElse(o, alt) == IF IsSome(o) THEN o ELSE alt

(***************************************************************************)
(* enum Format { Json, Yaml, Toml }                                        *)
(***************************************************************************)
Json == "Json"

Yaml == "Yaml"

Toml == "Toml"

Format == {Json, Yaml, Toml}

\* Format::name
name(f) == CASE f = Json -> "JSON" [] f = Yaml -> "YAML" [] f = Toml -> "TOML"

(***************************************************************************)
(* Characters.  str::to_lowercase maps each upper-case letter to its       *)
(* lower-case letter and leaves every other character alone.               *)
(***************************************************************************)
UpperLetters ==
    <<"A","B","C","D","E","F","G","H","I","J","K","L","M",
      "N","O","P","Q","R","S","T","U","V","W","X","Y","Z">>

LowerLetters ==
    <<"a","b","c","d","e","f","g","h","i","j","k","l","m",
      "n","o","p","q","r","s","t","u","v","w","x","y","z">>

char_to_lowercase(c) ==
    IF \E k \in DOMAIN UpperLetters : UpperLetters[k] = c
    THEN LowerLetters[CHOOSE k \in DOMAIN UpperLetters : UpperLetters[k] = c]
    ELSE c

\* A mutant of to_lowercase: the string is left as written.
to_lowercase_Identity(s) == s

to_lowercase(s) == [i \in 1..Len(s) |-> char_to_lowercase(s[i])]

\* The literals of the match arms.
lit_json == <<"j","s","o","n">>

lit_yaml == <<"y","a","m","l">>

lit_yml == <<"y","m","l">>

lit_toml == <<"t","o","m","l">>

\* The match of Format::from_str and of the production Format::from_extension.
match_ext(ext) ==
    IF ext = lit_json THEN Some(Json)
    ELSE IF ext = lit_yaml \/ ext = lit_yml THEN Some(Yaml)
    ELSE IF ext = lit_toml THEN Some(Toml)
    ELSE None

\* Format::from_str (chapters 03 and 04).
from_str(s) == match_ext(to_lowercase(s))

Max(S) == CHOOSE m \in S : \A n \in S : n <= m

Min(S) == CHOOSE m \in S : \A n \in S : m <= n

DotPositions(path) == {i \in 1..Len(path) : path[i] = "."}

\* A mutant of rsplit_next: split from the left, keeping what follows the
\* first '.'.
rsplit_next_FromFirstDot(path) ==
    IF DotPositions(path) = {} THEN Some(path)
    ELSE Some(SubSeq(path, Min(DotPositions(path)) + 1, Len(path)))

\* path.rsplit('.').next(): the first item of the reverse split, which is the
\* text after the last '.', and the whole path when it holds no '.'.  The
\* iterator always yields at least one item, so this is never None.
rsplit_next(path) ==
    IF DotPositions(path) = {} THEN Some(path)
    ELSE Some(SubSeq(path, Max(DotPositions(path)) + 1, Len(path)))

\* Format::from_extension of chapters 03 and 04: delegates to from_str.
from_extension04(path) ==
    IF ~IsSome(rsplit_next(path)) THEN None
    ELSE from_str(to_lowercase(Unwrap(rsplit_next(path))))

\* Format::from_extension of chapters 05 and 06: its own match.
from_extension(path) ==
    IF ~IsSome(rsplit_next(path)) THEN None
    ELSE match_ext(to_lowercase(Unwrap(rsplit_next(path))))

(***************************************************************************)
(* The Value model.  serde_json::Value is the pivot of every conversion;   *)
(* toml::Value has the same shape without Null and with two more scalars   *)
(* (Float, of which the model keeps nan, and Datetime, which no input      *)
(* uses).  A Mapping is a sequence of <<key, value>> pairs in key order    *)
(* (both crates keep their maps in a BTreeMap by default).                 *)
(***************************************************************************)
NullV == [t |-> "Null"]

BoolV(b) == [t |-> "Bool", v |-> b]

NumV(n) == [t |-> "Num", v |-> n]

FloatNan == [t |-> "Float", v |-> "nan"]

StrV(s) == [t |-> "Str", v |-> s]

SeqV(items) == [t |-> "Seq", v |-> items]

MapV(pairs) == [t |-> "Map", v |-> pairs]

\* The byte order of the characters that occur in keys.
AsciiOrder ==
    <<" ", "\"", "$", ",", "-", ".", "/",
      "0","1","2","3","4","5","6","7","8","9", ":", "=">>
    \o UpperLetters \o <<"[", "]", "_">> \o LowerLetters \o <<"{", "}", "~">>

CharRank(c) ==
    IF \E k \in DOMAIN AsciiOrder : AsciiOrder[k] = c
    THEN CHOOSE k \in DOMAIN AsciiOrder : AsciiOrder[k] = c
    ELSE Len(AsciiOrder) + 1

\* a < b in the order of str (bytewise, a proper prefix first).
RECURSIVE StrLess(_, _)
StrLess(a, b) ==
    IF b = <<>> THEN FALSE
    ELSE IF a = <<>> THEN TRUE
    ELSE IF a[1] = b[1] THEN StrLess(Tail(a), Tail(b))
    ELSE CharRank(a[1]) < CharRank(b[1])

\* Map::insert: the value of an existing key is replaced (the last write
\* wins), a new key goes to its place in key order.
MapInsert(pairs, k, v) ==
    IF \E i \in DOMAIN pairs : pairs[i][1] = k
    THEN [i \in DOMAIN pairs |-> IF pairs[i][1] = k THEN <<k, v>> ELSE pairs[i]]
    ELSE LET before == SelectSeq(pairs, LAMBDA q : StrLess(q[1], k))
             after == SelectSeq(pairs, LAMBDA q : StrLess(k, q[1]))
         IN  before \o <<(<<k, v>>)>> \o after

MapHasKey(pairs, k) == \E i \in DOMAIN pairs : pairs[i][1] = k

\* Whether a Value holds a Null anywhere.
RECURSIVE ContainsNull(_)
ContainsNull(val) ==
    CASE val.t = "Null" -> TRUE
      [] val.t = "Seq" -> \E i \in DOMAIN val.v : ContainsNull(val.v[i])
      [] val.t = "Map" -> \E i \in DOMAIN val.v : ContainsNull(val.v[i][2])
      [] OTHER -> FALSE

(***************************************************************************)
(* Results of the library calls: Ok(value) or Err(diagnostic).  A parser's *)
(* diagnostic is its message and the position it stopped at, the text      *)
(* that e.to_string() gives.                                               *)
(***************************************************************************)
Ok(x) == [ok |-> TRUE, val |-> x]

Err(e) == [ok |-> FALSE, err |-> e]

Diag(msg, at) == [msg |-> msg, at |-> at]

\* A parser's partial result: the value read and the position after it.
At(x, pos) == [ok |-> TRUE, val |-> x, pos |-> pos]

\* The ? operator: a failed result is returned as it is, a good one is
\* handed on.
Bind(r, K(_)) == IF r.ok THEN K(r) ELSE r

\* let x = ...; the rest of the computation uses x.
Let1(x, K(_)) == K(x)

Digits == <<"0","1","2","3","4","5","6","7","8","9">>

IsDigit(c) == \E k \in DOMAIN Digits : Digits[k] = c

DigitValue(c) == (CHOOSE k \in DOMAIN Digits : Digits[k] = c) - 1

IsLetter(c) ==
    \/ \E k \in DOMAIN UpperLetters : UpperLetters[k] = c
    \/ \E k \in DOMAIN LowerLetters : LowerLetters[k] = c

IsWs(c) == c = " " \/ c = "\n"

\* The first position from i on that holds no whitespace (Len(s) + 1 at the end).
RECURSIVE SkipWs(_, _)
SkipWs(s, i) ==
    IF i <= Len(s) /\ IsWs(s[i]) THEN SkipWs(s, i + 1) ELSE i

\* The first position from i on that holds no digit.
RECURSIVE SkipDigits(_, _)
SkipDigits(s, i) ==
    IF i <= Len(s) /\ IsDigit(s[i]) THEN SkipDigits(s, i + 1) ELSE i

\* The value of the decimal digits s[i..j-1].
RECURSIVE DigitsValue(_, _, _)
DigitsValue(s, i, j) ==
    IF j <= i THEN 0
    ELSE 10 * DigitsValue(s, i, j - 1) + DigitValue(s[j - 1])

\* Whether the text w stands at position i of s.
StandsAt(s, i, w) ==
    /\ i + Len(w) - 1 <= Len(s)
    /\ SubSeq(s, i, i + Len(w) - 1) = w

\* The position of the first '"' from i on (Len(s) + 1 when there is none).
RECURSIVE FindQuote(_, _)
FindQuote(s, i) ==
    IF i > Len(s) THEN i
    ELSE IF s[i] = "\\" THEN FindQuote(s, i + 2)
    ELSE IF s[i] = "\"" THEN i
    ELSE FindQuote(s, i + 1)

\* The text between double quotes for a string: a quote and a backslash are
\* written behind a backslash, a newline as \n.
RECURSIVE Escape(_)
\* A mutant of Escape: the characters are written as they are.
Escape_Verbatim(s) == s

Escape(s) ==
    IF s = <<>> THEN <<>>
    ELSE (IF s[1] = "\"" \/ s[1] = "\\" THEN <<"\\", s[1]>>
          ELSE IF s[1] = "\n" THEN <<"\\", "n">>
          ELSE <<s[1]>>) \o Escape(Tail(s))

\* The string a text between double quotes stands for.
RECURSIVE Unescape(_)
Unescape(s) ==
    IF s = <<>> THEN <<>>
    ELSE IF s[1] = "\\" /\ Len(s) >= 2
    THEN <<IF s[2] = "n" THEN "\n" ELSE s[2]>> \o Unescape(SubSeq(s, 3, Len(s)))
    ELSE <<s[1]>> \o Unescape(Tail(s))

\* The decimal text of an integer.
RECURSIVE NatChars(_)
NatChars(n) ==
    IF n < 10 THEN <<Digits[n + 1]>>
    ELSE NatChars(n \div 10) \o <<Digits[(n % 10) + 1]>>

IntChars(n) == IF n < 0 THEN <<"-">> \o NatChars(-n) ELSE NatChars(n)

(***************************************************************************)
(* serde_json::from_str, on the JSON the inputs use: null, true, false,    *)
(* integers, strings without escapes, arrays and objects, with blanks and  *)
(* newlines between tokens.  target is the type deserialized into:         *)
(* "json" for serde_json::Value, "toml" for toml::Value, whose visitor     *)
(* has no arm for null (visit_unit) and so rejects it.                     *)
(***************************************************************************)
RECURSIVE json_value(_, _, _), json_elements(_, _, _, _), json_members(_, _, _, _)

json_literal(s, i, w, val) ==
    IF StandsAt(s, i, w) THEN At(val, i + Len(w))
    ELSE IF i + Len(w) - 1 > Len(s) THEN Err(Diag("EOF while parsing a value", Len(s) + 1))
    ELSE Err(Diag("expected ident", i))

json_null(s, i, target) ==
    IF target = "toml" /\ StandsAt(s, i, <<"n","u","l","l">>)
    THEN Err(Diag("invalid type: null, expected any valid TOML value", i + 4))
    ELSE json_literal(s, i, <<"n","u","l","l">>, NullV)

json_string(s, i) ==
    Let1(FindQuote(s, i + 1), LAMBDA close :
        IF close > Len(s) THEN Err(Diag("EOF while parsing a string", Len(s) + 1))
        ELSE At(Unescape(SubSeq(s, i + 1, close - 1)), close + 1))

json_number(s, i) ==
    Let1(IF s[i] = "-" THEN i + 1 ELSE i, LAMBDA first :
    Let1(SkipDigits(s, first), LAMBDA stop :
        IF stop = first THEN Err(Diag("invalid number", first))
        ELSE IF s[first] = "0" /\ stop > first + 1 THEN Err(Diag("invalid number", first + 1))
        ELSE At(NumV(IF s[i] = "-" THEN -DigitsValue(s, first, stop)
                     ELSE DigitsValue(s, first, stop)), stop)))

json_value(s, i0, target) ==
    Let1(SkipWs(s, i0), LAMBDA i :
        IF i > Len(s) THEN Err(Diag("EOF while parsing a value", i))
        ELSE IF s[i] = "n" THEN json_null(s, i, target)
        ELSE IF s[i] = "t" \/ s[i] = "f"
        THEN json_literal(s, i,
                 IF s[i] = "t" THEN <<"t","r","u","e">> ELSE <<"f","a","l","s","e">>,
                 BoolV(s[i] = "t"))
        ELSE IF s[i] = "\"" THEN Bind(json_string(s, i), LAMBDA r : At(StrV(r.val), r.pos))
        ELSE IF s[i] = "-" \/ IsDigit(s[i]) THEN json_number(s, i)
        ELSE IF s[i] = "[" \/ s[i] = "{" THEN
            Let1(SkipWs(s, i + 1), LAMBDA j :
                IF j > Len(s)
                THEN Err(Diag(IF s[i] = "[" THEN "EOF while parsing a list"
                              ELSE "EOF while parsing an object", j))
                ELSE IF s[i] = "[" /\ s[j] = "]" THEN At(SeqV(<<>>), j + 1)
                ELSE IF s[i] = "{" /\ s[j] = "}" THEN At(MapV(<<>>), j + 1)
                ELSE IF s[i] = "[" THEN json_elements(s, j, <<>>, target)
                ELSE json_members(s, j, <<>>, target))
        ELSE Err(Diag("expected value", i)))

\* The elements of an array from position i on, acc being those read so far.
json_elements(s, i, acc, target) ==
    Bind(json_value(s, i, target), LAMBDA r :
    Let1(SkipWs(s, r.pos), LAMBDA j :
        IF j > Len(s) THEN Err(Diag("EOF while parsing a list", j))
        ELSE IF s[j] = "]" THEN At(SeqV(Append(acc, r.val)), j + 1)
        ELSE IF s[j] # "," THEN Err(Diag("expected ',' or ']'", j))
        ELSE Let1(SkipWs(s, j + 1), LAMBDA k :
                IF k <= Len(s) /\ s[k] = "]" THEN Err(Diag("trailing comma", k))
                ELSE json_elements(s, k, Append(acc, r.val), target))))

\* The members of an object from position i on, acc being those read so far.
json_members(s, i, acc, target) ==
    IF i > Len(s) THEN Err(Diag("EOF while parsing an object", i))
    ELSE IF s[i] # "\"" THEN Err(Diag("key must be a string", i))
    ELSE
    Bind(json_string(s, i), LAMBDA key :
    Let1(SkipWs(s, key.pos), LAMBDA c :
        IF c > Len(s) THEN Err(Diag("EOF while parsing an object", c))
        ELSE IF s[c] # ":" THEN Err(Diag("expected ':'", c))
        ELSE
        Bind(json_value(s, c + 1, target), LAMBDA r :
        Let1(SkipWs(s, r.pos), LAMBDA j :
        Let1(MapInsert(acc, key.val, r.val), LAMBDA pairs :
            IF j > Len(s) THEN Err(Diag("EOF while parsing an object", j))
            ELSE IF s[j] = "}" THEN At(MapV(pairs), j + 1)
            ELSE IF s[j] # "," THEN Err(Diag("expected ',' or '}'", j))
            ELSE Let1(SkipWs(s, j + 1), LAMBDA k :
                    IF k <= Len(s) /\ s[k] = "}" THEN Err(Diag("trailing comma", k))
                    ELSE json_members(s, k, pairs, target)))))))

\* serde_json::from_str: one value, then nothing but whitespace.
serde_json_from_str(s, target) ==
    Bind(json_value(s, 1, target), LAMBDA r :
    Let1(SkipWs(s, r.pos), LAMBDA j :
        IF j <= Len(s) THEN Err(Diag("trailing characters", j)) ELSE Ok(r.val)))

(***************************************************************************)
(* serde_json::to_string and the pretty serializer.  Neither fails on a    *)
(* Value (its keys are strings).                                           *)
(***************************************************************************)
\* A mutant of Quoted: the string is written without its quotes.
Quoted_Bare(s) == Escape(s)

Quoted(s) == <<"\"">> \o Escape(s) \o <<"\"">>

RECURSIVE Spaces(_)
Spaces(n) == IF n <= 0 THEN <<>> ELSE <<" ">> \o Spaces(n - 1)

json_scalar_text(val) ==
    CASE val.t = "Null" -> <<"n","u","l","l">>
      [] val.t = "Bool" -> IF val.v THEN <<"t","r","u","e">> ELSE <<"f","a","l","s","e">>
      [] val.t = "Num" -> IntChars(val.v)
      [] val.t = "Str" -> Quoted(val.v)

RECURSIVE json_compact(_), json_compact_items(_, _), json_compact_pairs(_, _)

\* serde_json::to_string, with CompactFormatter.
json_compact(val) ==
    CASE val.t = "Seq" -> <<"[">> \o json_compact_items(val.v, 1) \o <<"]">>
      [] val.t = "Map" -> <<"{">> \o json_compact_pairs(val.v, 1) \o <<"}">>
      [] OTHER -> json_scalar_text(val)

json_compact_items(items, i) ==
    IF i > Len(items) THEN <<>>
    ELSE (IF i > 1 THEN <<",">> ELSE <<>>)
         \o json_compact(items[i]) \o json_compact_items(items, i + 1)

json_compact_pairs(pairs, i) ==
    IF i > Len(pairs) THEN <<>>
    ELSE (IF i > 1 THEN <<",">> ELSE <<>>)
         \o Quoted(pairs[i][1]) \o <<":">> \o json_compact(pairs[i][2])
         \o json_compact_pairs(pairs, i + 1)

RECURSIVE json_pretty(_, _, _), json_pretty_items(_, _, _, _), json_pretty_pairs(_, _, _, _)

\* PrettyFormatter::with_indent: val written at nesting depth d, each level
\* indented by 'indent' spaces; an empty array or object stays on one line.
json_pretty(val, indent, d) ==
    CASE val.t = "Seq" ->
            IF val.v = <<>> THEN <<"[", "]">>
            ELSE <<"[">> \o json_pretty_items(val.v, 1, indent, d + 1)
                 \o <<"\n">> \o Spaces(indent * d) \o <<"]">>
      [] val.t = "Map" ->
            IF val.v = <<>> THEN <<"{", "}">>
            ELSE <<"{">> \o json_pretty_pairs(val.v, 1, indent, d + 1)
                 \o <<"\n">> \o Spaces(indent * d) \o <<"}">>
      [] OTHER -> json_scalar_text(val)

json_pretty_items(items, i, indent, d) ==
    IF i > Len(items) THEN <<>>
    ELSE (IF i > 1 THEN <<",">> ELSE <<>>) \o <<"\n">> \o Spaces(indent * d)
         \o json_pretty(items[i], indent, d) \o json_pretty_items(items, i + 1, indent, d)

json_pretty_pairs(pairs, i, indent, d) ==
    IF i > Len(pairs) THEN <<>>
    ELSE (IF i > 1 THEN <<",">> ELSE <<>>) \o <<"\n">> \o Spaces(indent * d)
         \o Quoted(pairs[i][1]) \o <<":", " ">> \o json_pretty(pairs[i][2], indent, d)
         \o json_pretty_pairs(pairs, i + 1, indent, d)

\* serde_json::to_string
serde_json_to_string(val) == Ok(json_compact(val))

\* The indent of serde_json::to_string_pretty.
DefaultJsonIndent == 2

\* serde_json::to_string_pretty
serde_json_to_string_pretty(val) == Ok(json_pretty(val, DefaultJsonIndent, 0))

(***************************************************************************)
(* toml::from_str into toml::Value, on the TOML the inputs use: key/value  *)
(* lines with a bare or quoted key, [table] headers, and as values         *)
(* integers, booleans, basic strings, nan and arrays (which may span       *)
(* lines and end with a comma).  Dotted keys, inline tables, arrays of     *)
(* tables, comments and dates are outside the inputs.                      *)
(***************************************************************************)
IsBareKeyChar(c) == IsLetter(c) \/ IsDigit(c) \/ c = "_" \/ c = "-"

RECURSIVE SkipBareKey(_, _)
SkipBareKey(s, i) ==
    IF i <= Len(s) /\ IsBareKeyChar(s[i]) THEN SkipBareKey(s, i + 1) ELSE i

RECURSIVE SkipBlanks(_, _)
SkipBlanks(s, i) ==
    IF i <= Len(s) /\ s[i] = " " THEN SkipBlanks(s, i + 1) ELSE i

\* A key at position i: "quoted" or bare.
toml_key(s, i) ==
    IF i > Len(s) THEN Err(Diag("invalid key", i))
    ELSE IF s[i] = "\"" THEN
        Let1(FindQuote(s, i + 1), LAMBDA close :
            IF close > Len(s) THEN Err(Diag("invalid basic string", i))
            ELSE At(Unescape(SubSeq(s, i + 1, close - 1)), close + 1))
    ELSE Let1(SkipBareKey(s, i), LAMBDA stop :
            IF stop = i THEN Err(Diag("invalid key", i))
            ELSE At(SubSeq(s, i, stop - 1), stop))

RECURSIVE toml_parse_value(_, _), toml_array(_, _, _)

toml_integer(s, i) ==
    Let1(IF s[i] = "-" \/ s[i] = "+" THEN i + 1 ELSE i, LAMBDA first :
    Let1(SkipDigits(s, first), LAMBDA stop :
        IF stop = first THEN Err(Diag("invalid integer", first))
        ELSE IF s[first] = "0" /\ stop > first + 1 THEN Err(Diag("invalid integer", first))
        ELSE At(NumV(IF s[i] = "-" THEN -DigitsValue(s, first, stop)
                     ELSE DigitsValue(s, first, stop)), stop)))

toml_parse_value(s, i) ==
    IF i > Len(s) \/ s[i] = "\n" THEN Err(Diag("invalid string, expected a value", i))
    ELSE IF s[i] = "\"" THEN
        Let1(FindQuote(s, i + 1), LAMBDA close :
            IF close > Len(s) THEN Err(Diag("invalid basic string", i))
            ELSE At(StrV(Unescape(SubSeq(s, i + 1, close - 1))), close + 1))
    ELSE IF StandsAt(s, i, <<"t","r","u","e">>) THEN At(BoolV(TRUE), i + 4)
    ELSE IF StandsAt(s, i, <<"f","a","l","s","e">>) THEN At(BoolV(FALSE), i + 5)
    ELSE IF StandsAt(s, i, <<"n","a","n">>) THEN At(FloatNan, i + 3)
    ELSE IF s[i] = "-" \/ s[i] = "+" \/ IsDigit(s[i]) THEN toml_integer(s, i)
    ELSE IF s[i] = "[" THEN toml_array(s, i + 1, <<>>)
    ELSE Err(Diag("invalid string, expected a value", i))

\* The elements of an array from position i0 on, acc being those read so far.
toml_array(s, i0, acc) ==
    Let1(SkipWs(s, i0), LAMBDA i :
        IF i > Len(s) THEN Err(Diag("invalid array, expected ']'", i))
        ELSE IF s[i] = "]" THEN At(SeqV(acc), i + 1)
        ELSE
        Bind(toml_parse_value(s, i), LAMBDA r :
        Let1(SkipWs(s, r.pos), LAMBDA j :
            IF j > Len(s) THEN Err(Diag("invalid array, expected ']'", j))
            ELSE IF s[j] = "]" THEN At(SeqV(Append(acc, r.val)), j + 1)
            ELSE IF s[j] = "," THEN toml_array(s, j + 1, Append(acc, r.val))
            ELSE Err(Diag("invalid array, expected ']'", j)))))

\* root with the pair <<k, v>> added to the table named by cur (None: the
\* root table itself).
TomlPut(root, cur, k, v) ==
    IF ~IsSome(cur) THEN MapInsert(root, k, v)
    ELSE [i \in DOMAIN root |->
            IF root[i][1] = Unwrap(cur)
            THEN <<root[i][1], MapV(MapInsert(root[i][2].v, k, v))>>
            ELSE root[i]]

TomlHas(root, cur, k) ==
    IF ~IsSome(cur) THEN MapHasKey(root, k)
    ELSE \E i \in DOMAIN root : root[i][1] = Unwrap(cur) /\ MapHasKey(root[i][2].v, k)

\* The end of a line: only blanks may stand before the newline or the end.
LineEnds(s, i) ==
    Let1(SkipBlanks(s, i), LAMBDA j : j > Len(s) \/ s[j] = "\n")

\* The document from position i0 on: root holds the pairs read so far, cur
\* names the table the last header opened.
RECURSIVE toml_document(_, _, _, _)
toml_document(s, i0, root, cur) ==
    Let1(SkipWs(s, i0), LAMBDA i :
        IF i > Len(s) THEN Ok(MapV(root))
        ELSE
        Bind(toml_key(s, IF s[i] = "[" THEN SkipBlanks(s, i + 1) ELSE i), LAMBDA k :
        Let1(SkipBlanks(s, k.pos), LAMBDA c :
            IF s[i] = "[" THEN
                IF c > Len(s) \/ s[c] # "]"
                THEN Err(Diag("invalid table header, expected ']'", c))
                ELSE IF ~LineEnds(s, c + 1)
                THEN Err(Diag("expected newline", SkipBlanks(s, c + 1)))
                ELSE IF MapHasKey(root, k.val)
                THEN Err(Diag("invalid table header, duplicate key", i))
                ELSE toml_document(s, c + 1, MapInsert(root, k.val, MapV(<<>>)), Some(k.val))
            ELSE IF c > Len(s) \/ s[c] # "="
            THEN Err(Diag("expected '.', '='", c))
            ELSE
            Bind(toml_parse_value(s, SkipBlanks(s, c + 1)), LAMBDA r :
                IF ~LineEnds(s, r.pos)
                THEN Err(Diag("expected newline", SkipBlanks(s, r.pos)))
                ELSE IF TomlHas(root, cur, k.val)
                THEN Err(Diag("duplicate key", i))
                ELSE toml_document(s, r.pos, TomlPut(root, cur, k.val, r.val), cur)))))

\* toml::from_str::<toml::Value>
toml_from_str(s) == toml_document(s, 1, <<>>, None)

\* serde_json::to_value(toml_value): tables, arrays and scalars keep their
\* shape; a float that is not finite has no JSON number and becomes Null.
\* It fails on no toml::Value (every key is a string).
RECURSIVE toml_to_json_value(_)
toml_to_json_value(tv) ==
    CASE tv.t = "Float" -> NullV
      [] tv.t = "Seq" -> SeqV([i \in DOMAIN tv.v |-> toml_to_json_value(tv.v[i])])
      [] tv.t = "Map" ->
            MapV([i \in DOMAIN tv.v |-> <<tv.v[i][1], toml_to_json_value(tv.v[i][2])>>])
      [] OTHER -> tv

serde_json_to_value(tv) == Ok(toml_to_json_value(tv))

(***************************************************************************)
(* toml::to_string and toml::to_string_pretty.  The root must be a table.  *)
(* A table's plain values come first, one "key = value" line each, then    *)
(* its sub-tables under [path] headers.  The pretty form writes an array   *)
(* of two or more elements one element a line, behind four spaces.         *)
(***************************************************************************)
TomlArrayIndent == 4

IsBareKey(k) == k # <<>> /\ \A i \in DOMAIN k : IsBareKeyChar(k[i])

toml_key_text(k) == IF IsBareKey(k) THEN k ELSE Quoted(k)

RECURSIVE toml_inline(_, _), toml_inline_items(_, _, _), toml_inline_pairs(_, _, _)

\* A value on the right of '='.
toml_inline(val, pretty) ==
    CASE val.t = "Bool" -> IF val.v THEN <<"t","r","u","e">> ELSE <<"f","a","l","s","e">>
      [] val.t = "Num" -> IntChars(val.v)
      [] val.t = "Float" -> <<"n","a","n">>
      [] val.t = "Str" -> Quoted(val.v)
      [] val.t = "Seq" ->
            IF pretty /\ Len(val.v) >= 2
            THEN <<"[">> \o toml_inline_items(val.v, 1, pretty) \o <<"\n", "]">>
            ELSE <<"[">> \o toml_inline_items(val.v, 1, FALSE) \o <<"]">>
      [] val.t = "Map" -> <<"{">> \o toml_inline_pairs(val.v, 1, pretty) \o <<" ", "}">>

toml_inline_items(items, i, multiline) ==
    IF i > Len(items) THEN <<>>
    ELSE IF multiline
    THEN <<"\n">> \o Spaces(TomlArrayIndent) \o toml_inline(items[i], FALSE) \o <<",">>
         \o toml_inline_items(items, i + 1, multiline)
    ELSE (IF i > 1 THEN <<",", " ">> ELSE <<>>) \o toml_inline(items[i], FALSE)
         \o toml_inline_items(items, i + 1, multiline)

toml_inline_pairs(pairs, i, pretty) ==
    IF i > Len(pairs) THEN <<>>
    ELSE (IF i > 1 THEN <<",", " ">> ELSE <<" ">>)
         \o toml_key_text(pairs[i][1]) \o <<" ", "=", " ">>
         \o toml_inline(pairs[i][2], FALSE) \o toml_inline_pairs(pairs, i + 1, pretty)

RECURSIVE toml_plain_lines(_, _, _), toml_sub_tables(_, _, _, _, _)

\* The "key = value" lines of a table's values that are not tables.
toml_plain_lines(pairs, i, pretty) ==
    IF i > Len(pairs) THEN <<>>
    ELSE (IF pairs[i][2].t = "Map" THEN <<>>
          ELSE toml_key_text(pairs[i][1]) \o <<" ", "=", " ">>
               \o toml_inline(pairs[i][2], pretty) \o <<"\n">>)
         \o toml_plain_lines(pairs, i + 1, pretty)

\* The [path] sections of a table's sub-tables; a header is kept off what
\* precedes it by an empty line.
toml_sub_tables(pairs, i, path, pretty, first) ==
    IF i > Len(pairs) THEN <<>>
    ELSE IF pairs[i][2].t # "Map" THEN toml_sub_tables(pairs, i + 1, path, pretty, first)
    ELSE LET here == (IF path = <<>> THEN <<>> ELSE path \o <<".">>)
                     \o toml_key_text(pairs[i][1])
             inner == pairs[i][2].v
         IN  (IF first THEN <<>> ELSE <<"\n">>)
             \o <<"[">> \o here \o <<"]", "\n">>
             \o toml_plain_lines(inner, 1, pretty)
             \o toml_sub_tables(inner, 1, here, pretty, FALSE)
             \o toml_sub_tables(pairs, i + 1, path, pretty, FALSE)

\* A mutant of toml_serialize: a root that is no table is written as the
\* value of a key named "value".
toml_serialize_AnyRoot(val, pretty) ==
    IF val.t # "Map"
    THEN Ok(<<"v","a","l","u","e"," ","="," ">> \o toml_inline(val, pretty) \o <<"\n">>)
    ELSE Ok(toml_plain_lines(val.v, 1, pretty)
            \o toml_sub_tables(val.v, 1, <<>>, pretty,
                   \A i \in DOMAIN val.v : val.v[i][2].t = "Map"))

toml_serialize(val, pretty) ==
    IF val.t # "Map" THEN Err(Diag("unsupported rust type", 0))
    ELSE Ok(toml_plain_lines(val.v, 1, pretty)
            \o toml_sub_tables(val.v, 1, <<>>, pretty,
                   \A i \in DOMAIN val.v : val.v[i][2].t = "Map"))

\* toml::to_string
toml_to_string(val) == toml_serialize(val, FALSE)

\* toml::to_string_pretty
toml_to_string_pretty(val) == toml_serialize(val, TRUE)

(***************************************************************************)
(* serde_yml::from_str into serde_json::Value, on the YAML the inputs use: *)
(* one document of block mappings and block sequences, flow collections    *)
(* (which is how JSON text reads as YAML), quoted and plain scalars.  A    *)
(* plain scalar is null (null, ~), a boolean, an integer, or else a        *)
(* string.  Anchors, tags, multi-document streams and block scalars are    *)
(* outside the inputs.                                                     *)
(***************************************************************************)
\* s without the blanks at its two ends.
RECURSIVE TrimRight(_)
TrimRight(s) ==
    IF s # <<>> /\ s[Len(s)] = " " THEN TrimRight(SubSeq(s, 1, Len(s) - 1)) ELSE s

Trim(s) == TrimRight(SubSeq(s, SkipBlanks(s, 1), Len(s)))

IsIntText(w) ==
    Let1(IF w # <<>> /\ (w[1] = "-" \/ w[1] = "+") THEN 2 ELSE 1, LAMBDA first :
        /\ first <= Len(w)
        /\ \A i \in first..Len(w) : IsDigit(w[i])
        /\ (w[first] = "0" => Len(w) = first))

\* The value of an untagged plain scalar.
yaml_plain(w) ==
    IF w \in {<<"n","u","l","l">>, <<"N","u","l","l">>, <<"N","U","L","L">>, <<"~">>, <<>>}
    THEN NullV
    ELSE IF w \in {<<"t","r","u","e">>, <<"T","r","u","e">>, <<"T","R","U","E">>}
    THEN BoolV(TRUE)
    ELSE IF w \in {<<"f","a","l","s","e">>, <<"F","a","l","s","e">>, <<"F","A","L","S","E">>}
    THEN BoolV(FALSE)
    ELSE IF IsIntText(w)
    THEN Let1(DigitsValue(w, IF w[1] = "-" \/ w[1] = "+" THEN 2 ELSE 1, Len(w) + 1),
              LAMBDA n : NumV(IF w[1] = "-" THEN -n ELSE n))
    ELSE StrV(w)

IsFlowIndicator(c) == c \in {",", "[", "]", "{", "}"}

\* The position of the first quote character q from i on.
RECURSIVE FindChar(_, _, _)
FindChar(s, i, q) ==
    IF i <= Len(s) /\ s[i] # q THEN FindChar(s, i + 1, q) ELSE i

\* Where a plain scalar that starts at i ends inside a flow collection:
\* before a flow indicator, a newline, or a ':' that a blank, a flow
\* indicator or the end follows.
RECURSIVE FlowPlainEnd(_, _)
FlowPlainEnd(s, i) ==
    IF i > Len(s) THEN i
    ELSE IF IsFlowIndicator(s[i]) \/ s[i] = "\n" THEN i
    ELSE IF s[i] = ":" /\ (i = Len(s) \/ IsWs(s[i + 1]) \/ IsFlowIndicator(s[i + 1])) THEN i
    ELSE FlowPlainEnd(s, i + 1)

\* Where the quoted scalar that opens at position i closes: a double-quoted
\* one at its first quote not behind a backslash, a single-quoted one at its
\* next quote (a single-quoted scalar that holds a quote is outside the
\* inputs).
QuoteEnd(s, i) == IF s[i] = "\"" THEN FindQuote(s, i + 1) ELSE FindChar(s, i + 1, "'")

\* The string of a quoted scalar, q being its quote and body the text inside.
Unquote(q, body) == IF q = "\"" THEN Unescape(body) ELSE body

\* A scalar at position i of a flow collection: quoted, or plain.
yaml_flow_scalar(s, i) ==
    IF s[i] = "\"" \/ s[i] = "'" THEN
        Let1(QuoteEnd(s, i), LAMBDA close :
            IF close > Len(s)
            THEN Err(Diag("found unexpected end of stream while scanning a quoted scalar", i))
            ELSE At(StrV(Unquote(s[i], SubSeq(s, i + 1, close - 1))), close + 1))
    ELSE Let1(FlowPlainEnd(s, i), LAMBDA stop :
            At(yaml_plain(Trim(SubSeq(s, i, stop - 1))), stop))

\* Text of a scalar used as a mapping key.
yaml_key_text(val) ==
    CASE val.t = "Str" -> val.v
      [] val.t = "Null" -> <<"n","u","l","l">>
      [] val.t = "Bool" -> IF val.v THEN <<"t","r","u","e">> ELSE <<"f","a","l","s","e">>
      [] val.t = "Num" -> IntChars(val.v)

RECURSIVE yaml_flow(_, _), yaml_flow_items(_, _, _), yaml_flow_pairs(_, _, _)

yaml_flow(s, i0) ==
    Let1(SkipWs(s, i0), LAMBDA i :
        IF i > Len(s) THEN Err(Diag("did not find expected node content", i))
        ELSE IF s[i] = "[" THEN yaml_flow_items(s, i + 1, <<>>)
        ELSE IF s[i] = "{" THEN yaml_flow_pairs(s, i + 1, <<>>)
        ELSE IF IsFlowIndicator(s[i]) THEN Err(Diag("did not find expected node content", i))
        ELSE yaml_flow_scalar(s, i))

yaml_flow_items(s, i0, acc) ==
    Let1(SkipWs(s, i0), LAMBDA i :
        IF i > Len(s)
        THEN Err(Diag("did not find expected ',' or ']' while parsing a flow sequence", i))
        ELSE IF s[i] = "]" THEN At(SeqV(acc), i + 1)
        ELSE
        Bind(yaml_flow(s, i), LAMBDA r :
        Let1(SkipWs(s, r.pos), LAMBDA j :
            IF j <= Len(s) /\ s[j] = "]" THEN At(SeqV(Append(acc, r.val)), j + 1)
            ELSE IF j <= Len(s) /\ s[j] = ","
            THEN yaml_flow_items(s, j + 1, Append(acc, r.val))
            ELSE Err(Diag("did not find expected ',' or ']' while parsing a flow sequence", j)))))

yaml_flow_pairs(s, i0, acc) ==
    Let1(SkipWs(s, i0), LAMBDA i :
        IF i > Len(s)
        THEN Err(Diag("did not find expected ',' or '}' while parsing a flow mapping", i))
        ELSE IF s[i] = "}" THEN At(MapV(acc), i + 1)
        ELSE IF IsFlowIndicator(s[i]) \/ s[i] = ":"
        THEN Err(Diag("did not find expected node content", i))
        ELSE
        Bind(yaml_flow_scalar(s, i), LAMBDA k :
        Let1(SkipWs(s, k.pos), LAMBDA c :
        Let1(SkipWs(s, c + 1), LAMBDA d :
        Bind(IF c <= Len(s) /\ s[c] = ":"
             THEN (IF d <= Len(s) /\ s[d] \in {",", "}"}
                   THEN At(NullV, d)
                   ELSE yaml_flow(s, c + 1))
             ELSE At(NullV, c), LAMBDA r :
        Let1(SkipWs(s, r.pos), LAMBDA j :
        Let1(MapInsert(acc, yaml_key_text(k.val), r.val), LAMBDA pairs :
            IF j <= Len(s) /\ s[j] = "}" THEN At(MapV(pairs), j + 1)
            ELSE IF j <= Len(s) /\ s[j] = ","
            THEN yaml_flow_pairs(s, j + 1, pairs)
            ELSE Err(Diag("did not find expected ',' or '}' while parsing a flow mapping", j)))))))))

\* The lines of a text, blank lines dropped: each its indentation and its
\* content without the blanks at its end.
RECURSIVE SplitLines(_, _, _)
SplitLines(s, i, acc) ==
    IF i > Len(s) THEN acc
    ELSE Let1(FindChar(s, i, "\n"), LAMBDA stop :
         Let1(SubSeq(s, i, stop - 1), LAMBDA raw :
         Let1(Trim(raw), LAMBDA text :
            SplitLines(s, stop + 1,
                IF text = <<>> THEN acc
                ELSE Append(acc, [indent |-> SkipBlanks(raw, 1) - 1, text |-> text])))))

\* A value written on one line of a block: a flow collection or a quoted
\* scalar up to the end of the line, or a plain scalar that is the line.
yaml_inline(text) ==
    IF text[1] \in {"[", "{", "\"", "'"} THEN
        Bind(yaml_flow(text, 1), LAMBDA r :
        Let1(SkipBlanks(text, r.pos), LAMBDA j :
            IF j <= Len(text)
            THEN Err(Diag("did not find expected <document start>", j))
            ELSE Ok(r.val)))
    ELSE Ok(yaml_plain(text))

\* Where the key of a block mapping entry ends in a line: the position of
\* the ':' that a blank or the end of the line follows (0 when the line is
\* no "key: value" entry).
RECURSIVE BlockColon(_, _)
BlockColon(text, i) ==
    IF i > Len(text) THEN 0
    ELSE IF text[i] = ":" /\ (i = Len(text) \/ text[i + 1] = " ") THEN i
    ELSE BlockColon(text, i + 1)

EntryColon(text) ==
    IF text[1] = "\"" \/ text[1] = "'" THEN
        Let1(QuoteEnd(text, 1), LAMBDA close :
        Let1(SkipBlanks(text, close + 1), LAMBDA c :
            IF close <= Len(text) /\ c <= Len(text) /\ text[c] = ":"
               /\ (c = Len(text) \/ text[c + 1] = " ")
            THEN c ELSE 0))
    ELSE IF text[1] \in {"[", "{"} THEN 0
    ELSE BlockColon(text, 1)

\* The key of the entry whose ':' stands at position colon.
EntryKey(text, colon) ==
    Let1(Trim(SubSeq(text, 1, colon - 1)), LAMBDA raw :
        IF raw[1] = "\"" \/ raw[1] = "'"
        THEN Unquote(raw[1], SubSeq(raw, 2, Len(raw) - 1))
        ELSE raw)

IsDashLine(text) == text = <<"-">> \/ StandsAt(text, 1, <<"-", " ">>)

BlockNode(val, next) == [ok |-> TRUE, val |-> val, next |-> next]

RECURSIVE yaml_node(_, _), yaml_map(_, _, _, _), yaml_seq(_, _, _, _)

\* The block node that starts on line i.
yaml_node(lines, i) ==
    IF IsDashLine(lines[i].text) THEN yaml_seq(lines, i, lines[i].indent, <<>>)
    ELSE IF EntryColon(lines[i].text) > 0 THEN yaml_map(lines, i, lines[i].indent, <<>>)
    ELSE Bind(yaml_inline(lines[i].text), LAMBDA r : BlockNode(r.val, i + 1))

\* The entries of the block mapping indented by n, from line i on.
yaml_map(lines, i, n, acc) ==
    IF i > Len(lines) \/ lines[i].indent < n THEN BlockNode(MapV(acc), i)
    ELSE IF lines[i].indent > n
    THEN Err(Diag("mapping values are not allowed in this context", i))
    ELSE
    Let1(EntryColon(lines[i].text), LAMBDA colon :
        IF IsDashLine(lines[i].text) \/ colon = 0
        THEN Err(Diag("could not find expected ':'", i))
        ELSE
        Let1(Trim(SubSeq(lines[i].text, colon + 1, Len(lines[i].text))), LAMBDA rest :
        Bind(IF rest # <<>>
             THEN Bind(yaml_inline(rest), LAMBDA v : BlockNode(v.val, i + 1))
             ELSE IF /\ i < Len(lines)
                     /\ \/ lines[i + 1].indent > n
                        \/ lines[i + 1].indent = n /\ IsDashLine(lines[i + 1].text)
             THEN yaml_node(lines, i + 1)
             ELSE BlockNode(NullV, i + 1), LAMBDA r :
            yaml_map(lines, r.next, n,
                     MapInsert(acc, EntryKey(lines[i].text, colon), r.val)))))

\* The items of the block sequence indented by n, from line i on.  What
\* follows "- " on the line is a node of its own, two columns further in.
yaml_seq(lines, i, n, acc) ==
    IF i > Len(lines) \/ lines[i].indent < n \/ ~IsDashLine(lines[i].text)
    THEN (IF i <= Len(lines) /\ lines[i].indent > n
          THEN Err(Diag("did not find expected '-' indicator", i))
          ELSE BlockNode(SeqV(acc), i))
    ELSE IF lines[i].indent > n THEN Err(Diag("did not find expected '-' indicator", i))
    ELSE
    Let1(Trim(Tail(lines[i].text)), LAMBDA rest :
    Bind(IF rest # <<>> \/ (i < Len(lines) /\ lines[i + 1].indent > n)
         THEN yaml_node(IF rest # <<>>
                        THEN [lines EXCEPT ![i] = [indent |-> n + 2, text |-> rest]]
                        ELSE lines,
                        IF rest # <<>> THEN i ELSE i + 1)
         ELSE BlockNode(NullV, i + 1), LAMBDA r :
        yaml_seq(lines, r.next, n, Append(acc, r.val))))

\* The lines of a plain scalar that continues over several lines, folded
\* into one by single blanks.
RECURSIVE FoldLines(_, _)
FoldLines(lines, i) ==
    IF i > Len(lines) THEN <<>>
    ELSE (IF i > 1 THEN <<" ">> ELSE <<>>) \o lines[i].text \o FoldLines(lines, i + 1)

\* serde_yml::from_str::<serde_json::Value>
serde_yml_from_str(s) ==
    Let1(SplitLines(s, 1, <<>>), LAMBDA lines :
        IF lines = <<>> THEN Ok(NullV)
        ELSE
        Bind(yaml_node(lines, 1), LAMBDA r :
            IF r.next > Len(lines) THEN Ok(r.val)
            ELSE IF r.val.t = "Str" /\ lines[1].text[1] \notin {"\"", "'"}
                    /\ \A i \in 2..Len(lines) :
                          EntryColon(lines[i].text) = 0 /\ ~IsDashLine(lines[i].text)
            THEN Ok(StrV(FoldLines(lines, 1)))
            ELSE Err(Diag("did not find expected <document start>", r.next))))

(***************************************************************************)
(* serde_yml::to_string of a serde_json::Value: block style, one style     *)
(* only.  A nested mapping is indented by two columns, a sequence under a  *)
(* key stays in the key's column; an empty collection is written [] or {}; *)
(* a string that would read back as another type, or that plain style      *)
(* cannot hold, is single-quoted.                                          *)
(***************************************************************************)
YamlIndent == 2

ContainsAt(s, w) == \E i \in 1..Len(s) : StandsAt(s, i, w)

YamlPlainOk(w) ==
    /\ w # <<>>
    /\ yaml_plain(w).t = "Str"
    /\ w[1] \notin {" ", "-", "?", ":", ",", "[", "]", "{", "}", "#", "&", "*", "!",
                    "|", ">", "'", "\"", "%", "@"}
    /\ w[Len(w)] \notin {" ", ":"}
    /\ ~ContainsAt(w, <<":", " ">>)
    /\ ~ContainsAt(w, <<" ", "#">>)
    /\ \A i \in DOMAIN w : w[i] # "\n"

yaml_string_text(w) == IF YamlPlainOk(w) THEN w ELSE <<"'">> \o w \o <<"'">>

IsYamlLeaf(val) == val.t \notin {"Seq", "Map"} \/ val.v = <<>>

\* A scalar or an empty collection, on one line.
yaml_leaf_text(val) ==
    CASE val.t = "Null" -> <<"n","u","l","l">>
      [] val.t = "Bool" -> IF val.v THEN <<"t","r","u","e">> ELSE <<"f","a","l","s","e">>
      [] val.t = "Num" -> IntChars(val.v)
      [] val.t = "Str" -> yaml_string_text(val.v)
      [] val.t = "Seq" -> <<"[", "]">>
      [] val.t = "Map" -> <<"{", "}">>

RECURSIVE yaml_block_lines(_, _), yaml_pair_lines(_, _, _), yaml_item_lines(_, _, _)

\* The lines of a collection that is not empty, indented by n columns.
yaml_block_lines(val, n) ==
    IF val.t = "Map" THEN yaml_pair_lines(val.v, 1, n) ELSE yaml_item_lines(val.v, 1, n)

yaml_pair_lines(pairs, i, n) ==
    IF i > Len(pairs) THEN <<>>
    ELSE Let1(Spaces(n) \o yaml_string_text(pairs[i][1]) \o <<":">>, LAMBDA key :
            IF IsYamlLeaf(pairs[i][2]) THEN <<key \o <<" ">> \o yaml_leaf_text(pairs[i][2])>>
            ELSE <<key>> \o yaml_block_lines(pairs[i][2],
                                IF pairs[i][2].t = "Map" THEN n + YamlIndent ELSE n))
         \o yaml_pair_lines(pairs, i + 1, n)

yaml_item_lines(items, i, n) ==
    IF i > Len(items) THEN <<>>
    ELSE (IF IsYamlLeaf(items[i])
          THEN <<Spaces(n) \o <<"-", " ">> \o yaml_leaf_text(items[i])>>
          ELSE Let1(yaml_block_lines(items[i], n + YamlIndent), LAMBDA inner :
                  <<Spaces(n) \o <<"-", " ">>
                       \o SubSeq(inner[1], n + YamlIndent + 1, Len(inner[1]))>>
                  \o Tail(inner)))
         \o yaml_item_lines(items, i + 1, n)

RECURSIVE JoinLines(_)
JoinLines(lines) ==
    IF lines = <<>> THEN <<>> ELSE lines[1] \o <<"\n">> \o JoinLines(Tail(lines))

\* serde_yml::to_string.  It fails on no Value.
serde_yml_to_string(val) ==
    IF IsYamlLeaf(val) THEN Ok(yaml_leaf_text(val) \o <<"\n">>)
    ELSE Ok(JoinLines(yaml_block_lines(val, 0)))

(***************************************************************************)
(* enum Error of the production chapter, and Result.                       *)
(***************************************************************************)
\* A mutant of FileRead: a read failure is reported as a conversion error.
FileRead_AsConvert(path, source) == [kind |-> "Convert", message |-> source]

FileRead(path, source) == [kind |-> "FileRead", path |-> path, source |-> source]

FileWrite(path, source) == [kind |-> "FileWrite", path |-> path, source |-> source]

Parse(format, source) == [kind |-> "Parse", format |-> format, source |-> source]

Convert(message) == [kind |-> "Convert", message |-> message]

UnknownFormat(path) == [kind |-> "UnknownFormat", path |-> path]

\* Ok(()) of a run function.
Unit == "unit"

\* result.map_err(f): the error of a failed result is replaced by f(error).
MapErr(r, f(_)) == IF r.ok THEN r ELSE Err(f(r.err))

(***************************************************************************)
(* The inner functions of the production commands, split where the code    *)
(* has its two phases: the decode of the source text and the encode of     *)
(* the Value.                                                              *)
(***************************************************************************)
ParseJSON(e) == Parse("JSON", e)

ParseYAML(e) == Parse("YAML", e)

\* A mutant of ParseTOML: the arm reports the wrong source format.
ParseTOML_AsJSON(e) == Parse("JSON", e)

ParseTOML(e) == Parse("TOML", e)

\* A mutant of convert_decode: JSON is read with the YAML parser, YAML
\* taking in every JSON document.
convert_decode_JsonViaYaml(input, from) ==
    CASE from = Json -> MapErr(serde_yml_from_str(input), ParseJSON)
      [] from = Yaml -> MapErr(serde_yml_from_str(input), ParseYAML)
      [] from = Toml ->
            Bind(MapErr(toml_from_str(input), ParseTOML), LAMBDA toml_value :
                MapErr(serde_json_to_value(toml_value.val), Convert))

\* convert, first phase: the source text parsed into a serde_json::Value.
convert_decode(input, from) ==
    CASE from = Json -> MapErr(serde_json_from_str(input, "json"), ParseJSON)
      [] from = Yaml -> MapErr(serde_yml_from_str(input), ParseYAML)
      [] from = Toml ->
            Bind(MapErr(toml_from_str(input), ParseTOML), LAMBDA toml_value :
                MapErr(serde_json_to_value(toml_value.val), Convert))

\* A mutant of json_to_toml: a null is dropped on the way (a null member
\* or element is left out, a null root becomes an empty table).
RECURSIVE DropNulls(_)
DropNulls(val) ==
    CASE val.t = "Null" -> MapV(<<>>)
      [] val.t = "Seq" ->
            SeqV([i \in 1..Len(SelectSeq(val.v, LAMBDA x : x.t # "Null")) |->
                     DropNulls(SelectSeq(val.v, LAMBDA x : x.t # "Null")[i])])
      [] val.t = "Map" ->
            MapV([i \in 1..Len(SelectSeq(val.v, LAMBDA q : q[2].t # "Null")) |->
                     <<SelectSeq(val.v, LAMBDA q : q[2].t # "Null")[i][1],
                       DropNulls(SelectSeq(val.v, LAMBDA q : q[2].t # "Null")[i][2])>>])
      [] OTHER -> val

json_to_toml_DropNulls(val) == Ok(DropNulls(val))

\* The Value as a toml::Value: serialized to JSON text, which is then
\* deserialized into toml::Value.
json_to_toml(val) ==
    Bind(MapErr(serde_json_to_string(val), Convert), LAMBDA json_str :
        MapErr(serde_json_from_str(json_str.val, "toml"), Convert))

\* A mutant of convert_encode: without --pretty, YAML is written in flow
\* style, on one line.
convert_encode_YamlFlowWhenCompact(val, to, pretty) ==
    CASE to = Json ->
            MapErr(IF pretty THEN serde_json_to_string_pretty(val)
                   ELSE serde_json_to_string(val), Convert)
      [] to = Yaml ->
            MapErr(IF pretty THEN serde_yml_to_string(val)
                   ELSE serde_json_to_string(val), Convert)
      [] to = Toml ->
            Bind(json_to_toml(val), LAMBDA toml_value :
                MapErr(IF pretty THEN toml_to_string_pretty(toml_value.val)
                       ELSE toml_to_string(toml_value.val), Convert))

\* convert, second phase: the Value serialized into the target format.
convert_encode(val, to, pretty) ==
    CASE to = Json ->
            MapErr(IF pretty THEN serde_json_to_string_pretty(val)
                   ELSE serde_json_to_string(val), Convert)
      [] to = Yaml -> MapErr(serde_yml_to_string(val), Convert)
      [] to = Toml ->
            Bind(json_to_toml(val), LAMBDA toml_value :
                MapErr(IF pretty THEN toml_to_string_pretty(toml_value.val)
                       ELSE toml_to_string(toml_value.val), Convert))

\* fn convert(input, from, to, pretty) -> Result<String>
convert(input, from, to, pretty) ==
    Bind(convert_decode(input, from), LAMBDA decoded :
        convert_encode(decoded.val, to, pretty))

\* A mutant of validate_decode: the text is parsed as convert parses it and
\* then encoded into TOML, as if validity meant convertibility.
validate_decode_ThenEncode(input, format) == convert(input, format, Toml, FALSE)

\* The match of validate::run: the text parsed, the Value dropped.
validate_decode(input, format) ==
    CASE format = Json -> MapErr(serde_json_from_str(input, "json"), ParseJSON)
      [] format = Yaml -> MapErr(serde_yml_from_str(input), ParseYAML)
      [] format = Toml -> MapErr(toml_from_str(input), ParseTOML)

\* format_content, first phase: JSON and YAML into a serde_json::Value, TOML
\* into a toml::Value.
format_decode(input, format) ==
    CASE format = Json -> MapErr(serde_json_from_str(input, "json"), ParseJSON)
      [] format = Yaml -> MapErr(serde_yml_from_str(input), ParseYAML)
      [] format = Toml -> MapErr(toml_from_str(input), ParseTOML)

\* A mutant of format_encode: JSON through to_string_pretty, whose indent
\* is two spaces whatever --indent says.
format_encode_DefaultIndent(val, format, indent) ==
    CASE format = Json -> serde_json_to_string_pretty(val)
      [] format = Yaml -> MapErr(serde_yml_to_string(val), Convert)
      [] format = Toml -> MapErr(toml_to_string_pretty(val), Convert)

\* format_content, second phase: the same format again; JSON through
\* PrettyFormatter::with_indent, YAML and TOML without a use of indent.
format_encode(val, format, indent) ==
    CASE format = Json -> Ok(json_pretty(val, indent, 0))
      [] format = Yaml -> MapErr(serde_yml_to_string(val), Convert)
      [] format = Toml -> MapErr(toml_to_string_pretty(val), Convert)

\* fn format_content(input, format, indent) -> Result<String>
format_content(input, format, indent) ==
    Bind(format_decode(input, format), LAMBDA decoded :
        format_encode(decoded.val, format, indent))

(***************************************************************************)
(* The inputs of the commands: paths, file contents, command lines.        *)
(***************************************************************************)
ProcIds == {"p1", "p2"}

StdinPath == <<"-">>

P_json == <<"c",".","j","s","o","n">>

P_yml == <<"c",".","y","m","l">>

P_TOML == <<"c",".","T","O","M","L">>

P_txt == <<"c",".","t","x","t">>

\* A file called toml, a name without any '.'.
P_bare == <<"t","o","m","l">>

\* A file whose name has no '.' and is no format name.
P_noext == <<"c","f","g">>

InputPaths == {P_json, P_yml, P_TOML, P_txt, P_bare, P_noext}

OutPath == <<"o","u","t">>

\* The output file of a second invocation.
OutPath2 == <<"o","u","t","2">>

FilePaths == InputPaths \cup {OutPath, OutPath2}

\* What an output file holds before the command runs, when it exists.
OldText == <<"o","l","d">>

T_empty_obj == <<"{","}">>

T_open_brace == <<"{">>

T_obj == <<"{","\"","a","\"",":","1","}">>

T_obj_null == <<"{","\"","a","\"",":","n","u","l","l","}">>

T_nested == <<"{","\"","b","\"",":","[","t","r","u","e",",","n","u","l","l","]",",",
              "\"","a","\"",":","1","2","}">>

T_seq_null == <<"[","1",",","n","u","l","l","]">>

T_seq == <<"[","1","]">>

T_null == <<"n","u","l","l">>

T_string == <<"\"","a","\"">>

T_toml == <<"a"," ","="," ","1","\n">>

T_toml_nan == <<"a"," ","="," ","n","a","n","\n">>

T_toml_table == <<"a"," ","="," ","[","1",","," ","2","]","\n",
                  "[","s","]","\n","c"," ","="," ","\"","x","\"","\n">>

T_yaml == <<"a",":"," ","1","\n">>

T_yaml_seq == <<"-"," ","1","\n","-"," ","x","\n">>

\* A quoted scalar that is never closed: no format reads it.
T_open_quote == <<"\"","a">>

T_yaml_nested == <<"a",":","\n"," "," ","b",":"," ","~","\n","c",":","\n","-"," ","1","\n">>

Texts ==
    { T_empty_obj, T_open_brace, T_obj, T_obj_null, T_nested, T_seq_null, T_seq,
      T_null, T_string, T_toml, T_toml_nan, T_toml_table, T_yaml, T_yaml_seq,
      T_yaml_nested, T_open_quote }

OptionOf(S) == {None} \cup {Some(x) : x \in S}

\* clap's bounds of --indent: value_parser!(u8).range(1..=8).
IndentMin == 1

IndentMax == 8

\* Commands::Convert; input_arg is the positional argument as given, input
\* the field after clap's default_value = "-".
ConvertArgs ==
    { [cmd |-> "convert", input_arg |-> i,
       input |-> IF IsSome(i) THEN Unwrap(i) ELSE StdinPath,
       output |-> o, from |-> f, to |-> t, pretty |-> pr, verbose |-> vb] :
      i \in OptionOf(InputPaths \cup {StdinPath}), o \in OptionOf({OutPath}),
      f \in OptionOf(Format), t \in Format, pr \in BOOLEAN, vb \in BOOLEAN }

\* Commands::Validate
ValidateArgs ==
    { [cmd |-> "validate", file |-> i, format |-> f, verbose |-> vb, quiet |-> q] :
      i \in InputPaths, f \in OptionOf(Format), vb \in BOOLEAN, q \in BOOLEAN }

\* Commands::Format
FormatArgs ==
    { [cmd |-> "format", file |-> i, indent |-> n, write |-> w, verbose |-> vb] :
      i \in InputPaths, n \in IndentMin..IndentMax, w \in BOOLEAN, vb \in BOOLEAN }

NoArgs == [cmd |-> "none"]

\* The path a command reads its input from.
InputOf(a) == IF a.cmd = "convert" THEN a.input ELSE a.file

\* Whether the command may write the file OutPath.
WritesOutPath(a) == a.cmd = "convert" /\ IsSome(a.output)

(***************************************************************************)
(* The state after the process has parsed its command line: invocation p1  *)
(* is about to call its run function; its input holds src, a text or       *)
(* nothing (a missing file, an unreadable standard input); the output file *)
(* exists with an old text, or does not.                                   *)
(***************************************************************************)
InitProcs(a) ==
    /\ args = [p \in ProcIds |-> IF p = "p1" THEN a ELSE NoArgs]
    /\ pc = [p \in ProcIds |-> IF p = "p1" THEN "start" ELSE "idle"]
    /\ from_format = [p \in ProcIds |-> None]
    /\ content = [p \in ProcIds |-> None]
    /\ value = [p \in ProcIds |-> None]
    /\ converted = [p \in ProcIds |-> None]
    /\ ret = [p \in ProcIds |-> None]
    /\ exit_code = [p \in ProcIds |-> None]
    /\ steps = [p \in ProcIds |-> <<>>]

InitIO(a, src, old) ==
    /\ fs = [q \in FilePaths |->
                IF q = InputOf(a) THEN src
                ELSE IF q = OutPath /\ WritesOutPath(a) THEN old
                ELSE None]
    /\ stdin = IF InputOf(a) = StdinPath THEN src ELSE None
    /\ stdin_read = FALSE
    /\ stdout = <<>>
    /\ stderr = <<>>

IdentIdle ==
    /\ idIn = <<>>
    /\ idOp = "idle"
    /\ idOut = None

Init ==
    /\ IdentIdle
    /\ \E a \in ConvertArgs \cup ValidateArgs \cup FormatArgs :
       \E src \in OptionOf(Texts) :
       \E old \in (IF WritesOutPath(a) THEN OptionOf({OldText}) ELSE {None}) :
          InitProcs(a) /\ InitIO(a, src, old)

(***************************************************************************)
(* The steps of the run functions.                                         *)
(***************************************************************************)
\* run returns r: its caller, main, goes on from there.
Return(p, r) ==
    /\ ret' = [ret EXCEPT ![p] = Some(r)]
    /\ pc' = [pc EXCEPT ![p] = "returned"]

Did(p, step) == steps' = [steps EXCEPT ![p] = Append(@, step)]

\* eprintln! of the lines, when the flag is set.
Eprint(flag, lines) == stderr' = IF flag THEN stderr \o lines ELSE stderr

IoNotFound == Diag("No such file or directory (os error 2)", 0)

IoInvalidData == Diag("stream did not contain valid UTF-8", 0)

IoWriteFailed == Diag("write failed", 0)

\* A mutant of ConvertResolve: standard input is read before the command
\* looks at --from.
ConvertResolve_ReadsFirst(p) ==
    /\ pc[p] = "start" /\ args[p].cmd = "convert"
    /\ Did(p, "resolve")
    /\ stdin_read' = (stdin_read \/ args[p].input = StdinPath)
    /\ IF IsSome(IF args[p].input = StdinPath THEN args[p].from
                 ELSE OrElse(args[p].from, from_extension(args[p].input)))
       THEN /\ from_format' = [from_format EXCEPT ![p] =
                                  IF args[p].input = StdinPath THEN args[p].from
                                  ELSE OrElse(args[p].from, from_extension(args[p].input))]
            /\ pc' = [pc EXCEPT ![p] = "resolved"]
            /\ UNCHANGED ret
       ELSE /\ Return(p, Err(UnknownFormat(args[p].input)))
            /\ UNCHANGED from_format
    /\ UNCHANGED <<idVars, args, content, value, converted, exit_code,
                   fs, stdin, stdout, stderr>>

\* convert::run, the format of the source: --from is required for standard
\* input; for a file it is --from, or else the extension.
ConvertResolve(p) ==
    /\ pc[p] = "start" /\ args[p].cmd = "convert"
    /\ Did(p, "resolve")
    /\ LET a == args[p]
           from == IF a.input = StdinPath THEN a.from
                   ELSE OrElse(a.from, from_extension(a.input))
       IN  IF IsSome(from)
           THEN /\ from_format' = [from_format EXCEPT ![p] = from]
                /\ pc' = [pc EXCEPT ![p] = "resolved"]
                /\ UNCHANGED ret
           ELSE /\ Return(p, Err(IF a.input = StdinPath
                                 THEN Convert(Diag("--from is required when reading standard input", 0))
                                 ELSE UnknownFormat(a.input)))
                /\ UNCHANGED from_format
    /\ UNCHANGED <<idVars, args, content, value, converted, exit_code, ioVars>>

\* convert::run, the input: all of standard input, or all of the file;
\* then the two lines of --verbose.
ConvertRead(p) ==
    /\ pc[p] = "resolved" /\ args[p].cmd = "convert"
    /\ Did(p, "read")
    /\ LET a == args[p]
           onStdin == a.input = StdinPath
           got == IF onStdin THEN stdin ELSE fs[a.input]
       IN  /\ stdin_read' = (stdin_read \/ onStdin)
           /\ IF IsSome(got)
              THEN /\ content' = [content EXCEPT ![p] = got]
                   /\ pc' = [pc EXCEPT ![p] = "read"]
                   /\ Eprint(a.verbose,
                             <<[line |-> "source format", name |-> name(Unwrap(from_format[p]))],
                               [line |-> "target format", name |-> name(a.to)]>>)
                   /\ UNCHANGED ret
              ELSE /\ Return(p, Err(IF onStdin
                                    THEN FileRead(<<"s","t","d","i","n">>, IoInvalidData)
                                    ELSE FileRead(a.input, IoNotFound)))
                   /\ UNCHANGED <<content, stderr>>
    /\ UNCHANGED <<idVars, args, from_format, value, converted, exit_code, fs, stdin, stdout>>

\* convert(), first phase.
ConvertDecode(p) ==
    /\ pc[p] = "read" /\ args[p].cmd = "convert"
    /\ Did(p, "decode")
    /\ LET r == convert_decode(Unwrap(content[p]), Unwrap(from_format[p]))
       IN  IF r.ok
           THEN /\ value' = [value EXCEPT ![p] = Some(r.val)]
                /\ pc' = [pc EXCEPT ![p] = "decoded"]
                /\ UNCHANGED ret
           ELSE /\ Return(p, r)
                /\ UNCHANGED value
    /\ UNCHANGED <<idVars, args, from_format, content, converted, exit_code, ioVars>>

\* A mutant of ConvertEncode: the file of --output is created empty before
\* the Value is encoded.
ConvertEncode_CreatesTarget(p) ==
    /\ pc[p] = "decoded" /\ args[p].cmd = "convert"
    /\ Did(p, "encode")
    /\ fs' = IF IsSome(args[p].output)
             THEN [fs EXCEPT ![Unwrap(args[p].output)] = Some(<<>>)]
             ELSE fs
    /\ IF convert_encode(Unwrap(value[p]), args[p].to, args[p].pretty).ok
       THEN /\ converted' = [converted EXCEPT ![p] =
                    Some(convert_encode(Unwrap(value[p]), args[p].to, args[p].pretty).val)]
            /\ pc' = [pc EXCEPT ![p] = "encoded"]
            /\ UNCHANGED ret
       ELSE /\ Return(p, convert_encode(Unwrap(value[p]), args[p].to, args[p].pretty))
            /\ UNCHANGED converted
    /\ UNCHANGED <<idVars, args, from_format, content, value, exit_code,
                   stdin, stdin_read, stdout, stderr>>

\* convert(), second phase.
ConvertEncode(p) ==
    /\ pc[p] = "decoded" /\ args[p].cmd = "convert"
    /\ Did(p, "encode")
    /\ LET r == convert_encode(Unwrap(value[p]), args[p].to, args[p].pretty)
       IN  IF r.ok
           THEN /\ converted' = [converted EXCEPT ![p] = Some(r.val)]
                /\ pc' = [pc EXCEPT ![p] = "encoded"]
                /\ UNCHANGED ret
           ELSE /\ Return(p, r)
                /\ UNCHANGED converted
    /\ UNCHANGED <<idVars, args, from_format, content, value, exit_code, ioVars>>

\* What a file may hold after fs::write of text failed: what it held (the
\* file could not be opened), nothing (it was created or truncated and no
\* byte was written), or the first part of text.
AfterFailedWrite(before, text) ==
    {before, Some(<<>>), Some(SubSeq(text, 1, Len(text) \div 2))}

\* fs::write(path, text) and what follows it in the two commands that write.
WriteFile(p, path, text, verbose, note) ==
    \/ /\ fs' = [fs EXCEPT ![path] = Some(text)]
       /\ Eprint(verbose, <<[line |-> note, path |-> path]>>)
       /\ Return(p, Ok(Unit))
    \/ /\ \E after \in AfterFailedWrite(fs[path], text) :
             fs' = [fs EXCEPT ![path] = after]
       /\ Return(p, Err(FileWrite(path, IoWriteFailed)))
       /\ UNCHANGED stderr

\* print!("{}", text)
PrintResult(text) == stdout' = Append(stdout, [line |-> "result", text |-> text])

\* convert::run, the output: the file of --output, or standard output.
ConvertWrite(p) ==
    /\ pc[p] = "encoded" /\ args[p].cmd = "convert"
    /\ Did(p, "write")
    /\ IF IsSome(args[p].output)
       THEN /\ WriteFile(p, Unwrap(args[p].output), Unwrap(converted[p]),
                         args[p].verbose, "written")
            /\ UNCHANGED stdout
       ELSE /\ PrintResult(Unwrap(converted[p]))
            /\ Return(p, Ok(Unit))
            /\ UNCHANGED <<fs, stderr>>
    /\ UNCHANGED <<idVars, args, from_format, content, value, converted, exit_code,
                   stdin, stdin_read>>

\* validate::run, the format: --format, or else the extension; then the
\* line of --verbose.
ValidateResolve(p) ==
    /\ pc[p] = "start" /\ args[p].cmd = "validate"
    /\ Did(p, "resolve")
    /\ LET a == args[p]
           format == OrElse(a.format, from_extension(a.file))
       IN  IF IsSome(format)
           THEN /\ from_format' = [from_format EXCEPT ![p] = format]
                /\ pc' = [pc EXCEPT ![p] = "resolved"]
                /\ Eprint(a.verbose, <<[line |-> "validating", name |-> name(Unwrap(format))]>>)
                /\ UNCHANGED ret
           ELSE /\ Return(p, Err(UnknownFormat(a.file)))
                /\ UNCHANGED <<from_format, stderr>>
    /\ UNCHANGED <<idVars, args, content, value, converted, exit_code,
                   fs, stdin, stdin_read, stdout>>

\* validate::run, fs::read_to_string(file).
ValidateRead(p) ==
    /\ pc[p] = "resolved" /\ args[p].cmd = "validate"
    /\ Did(p, "read")
    /\ IF IsSome(fs[args[p].file])
       THEN /\ content' = [content EXCEPT ![p] = fs[args[p].file]]
            /\ pc' = [pc EXCEPT ![p] = "read"]
            /\ UNCHANGED ret
       ELSE /\ Return(p, Err(FileRead(args[p].file, IoNotFound)))
            /\ UNCHANGED content
    /\ UNCHANGED <<idVars, args, from_format, value, converted, exit_code, ioVars>>

\* validate::run, the parse; the Value is dropped, and the verdict printed
\* unless --quiet.
ValidateDecode(p) ==
    /\ pc[p] = "read" /\ args[p].cmd = "validate"
    /\ Did(p, "decode")
    /\ LET r == validate_decode(Unwrap(content[p]), Unwrap(from_format[p]))
       IN  IF r.ok
           THEN /\ stdout' = IF args[p].quiet THEN stdout
                             ELSE Append(stdout, [line |-> "syntax ok", file |-> args[p].file,
                                                  name |-> name(Unwrap(from_format[p]))])
                /\ Return(p, Ok(Unit))
           ELSE /\ Return(p, r)
                /\ UNCHANGED stdout
    /\ UNCHANGED <<idVars, args, from_format, content, value, converted, exit_code,
                   fs, stdin, stdin_read, stderr>>

\* A mutant of FormatResolve: the file is opened before the extension is
\* looked at, so that a missing file is reported first.
FormatResolve_OpensFirst(p) ==
    /\ pc[p] = "start" /\ args[p].cmd = "format"
    /\ IF fs[args[p].file] = None
       THEN /\ Did(p, "read")
            /\ Return(p, Err(FileRead(args[p].file, IoNotFound)))
            /\ UNCHANGED <<from_format, stderr>>
       ELSE /\ Did(p, "resolve")
            /\ IF IsSome(from_extension(args[p].file))
               THEN /\ from_format' = [from_format EXCEPT ![p] = from_extension(args[p].file)]
                    /\ pc' = [pc EXCEPT ![p] = "resolved"]
                    /\ Eprint(args[p].verbose,
                              <<[line |-> "format", name |-> name(Unwrap(from_extension(args[p].file)))],
                                [line |-> "indent", indent |-> args[p].indent]>>)
                    /\ UNCHANGED ret
               ELSE /\ Return(p, Err(UnknownFormat(args[p].file)))
                    /\ UNCHANGED <<from_format, stderr>>
    /\ UNCHANGED <<idVars, args, content, value, converted, exit_code,
                   fs, stdin, stdin_read, stdout>>

\* format::run, the format: the extension alone; then the lines of --verbose.
FormatResolve(p) ==
    /\ pc[p] = "start" /\ args[p].cmd = "format"
    /\ Did(p, "resolve")
    /\ LET a == args[p]
           format == from_extension(a.file)
       IN  IF IsSome(format)
           THEN /\ from_format' = [from_format EXCEPT ![p] = format]
                /\ pc' = [pc EXCEPT ![p] = "resolved"]
                /\ Eprint(a.verbose, <<[line |-> "format", name |-> name(Unwrap(format))],
                                       [line |-> "indent", indent |-> a.indent]>>)
                /\ UNCHANGED ret
           ELSE /\ Return(p, Err(UnknownFormat(a.file)))
                /\ UNCHANGED <<from_format, stderr>>
    /\ UNCHANGED <<idVars, args, content, value, converted, exit_code,
                   fs, stdin, stdin_read, stdout>>

\* A mutant of FormatRead: the text read is kept in a buffer the invocations
\* share, and an invocation that finds the buffer filled takes what is in it.
FormatRead_SharedBuffer(p) ==
    /\ pc[p] = "resolved" /\ args[p].cmd = "format"
    /\ Did(p, "read")
    /\ IF IsSome(fs[args[p].file])
       THEN /\ content' = [content EXCEPT ![p] =
                              IF \E q \in ProcIds \ {p} : IsSome(content[q])
                              THEN content[CHOOSE q \in ProcIds \ {p} : IsSome(content[q])]
                              ELSE fs[args[p].file]]
            /\ pc' = [pc EXCEPT ![p] = "read"]
            /\ UNCHANGED ret
       ELSE /\ Return(p, Err(FileRead(args[p].file, IoNotFound)))
            /\ UNCHANGED content
    /\ UNCHANGED <<idVars, args, from_format, value, converted, exit_code, ioVars>>

\* format::run, fs::read_to_string(file).
FormatRead(p) ==
    /\ pc[p] = "resolved" /\ args[p].cmd = "format"
    /\ Did(p, "read")
    /\ IF IsSome(fs[args[p].file])
       THEN /\ content' = [content EXCEPT ![p] = fs[args[p].file]]
            /\ pc' = [pc EXCEPT ![p] = "read"]
            /\ UNCHANGED ret
       ELSE /\ Return(p, Err(FileRead(args[p].file, IoNotFound)))
            /\ UNCHANGED content
    /\ UNCHANGED <<idVars, args, from_format, value, converted, exit_code, ioVars>>

\* format_content, first phase.
FormatDecode(p) ==
    /\ pc[p] = "read" /\ args[p].cmd = "format"
    /\ Did(p, "decode")
    /\ LET r == format_decode(Unwrap(content[p]), Unwrap(from_format[p]))
       IN  IF r.ok
           THEN /\ value' = [value EXCEPT ![p] = Some(r.val)]
                /\ pc' = [pc EXCEPT ![p] = "decoded"]
                /\ UNCHANGED ret
           ELSE /\ Return(p, r)
                /\ UNCHANGED value
    /\ UNCHANGED <<idVars, args, from_format, content, converted, exit_code, ioVars>>

\* format_content, second phase.
FormatEncode(p) ==
    /\ pc[p] = "decoded" /\ args[p].cmd = "format"
    /\ Did(p, "encode")
    /\ LET r == format_encode(Unwrap(value[p]), Unwrap(from_format[p]), args[p].indent)
       IN  IF r.ok
           THEN /\ converted' = [converted EXCEPT ![p] = Some(r.val)]
                /\ pc' = [pc EXCEPT ![p] = "encoded"]
                /\ UNCHANGED ret
           ELSE /\ Return(p, r)
                /\ UNCHANGED converted
    /\ UNCHANGED <<idVars, args, from_format, content, value, exit_code, ioVars>>

\* format::run, the output: the file itself with --write, or standard output.
FormatWrite(p) ==
    /\ pc[p] = "encoded" /\ args[p].cmd = "format"
    /\ Did(p, "write")
    /\ IF args[p].write
       THEN /\ WriteFile(p, args[p].file, Unwrap(converted[p]), args[p].verbose, "updated")
            /\ UNCHANGED stdout
       ELSE /\ PrintResult(Unwrap(converted[p]))
            /\ Return(p, Ok(Unit))
            /\ UNCHANGED <<fs, stderr>>
    /\ UNCHANGED <<idVars, args, from_format, content, value, converted, exit_code,
                   stdin, stdin_read>>

\* The exit status of a process that returns from main, and the one main
\* passes to std::process::exit on an error.
ExitSuccess == 0

ExitFailure == 1

\* A mutant of MainExit: the error is printed, and the process exits with
\* status 0 all the same.
MainExit_AlwaysZero(p) ==
    /\ pc[p] = "returned"
    /\ pc' = [pc EXCEPT ![p] = "exited"]
    /\ exit_code' = [exit_code EXCEPT ![p] = Some(ExitSuccess)]
    /\ stderr' = IF Unwrap(ret[p]).ok THEN stderr
                 ELSE Append(stderr, [line |-> "error", error |-> Unwrap(ret[p]).err])
    /\ UNCHANGED <<idVars, args, from_format, content, value, converted, ret, steps,
                   fs, stdin, stdin_read, stdout>>

\* main, after the command returned: an error is printed on standard error
\* and the process exits with status 1; otherwise main returns.
MainExit(p) ==
    /\ pc[p] = "returned"
    /\ pc' = [pc EXCEPT ![p] = "exited"]
    /\ LET r == Unwrap(ret[p])
       IN  IF r.ok
           THEN /\ exit_code' = [exit_code EXCEPT ![p] = Some(ExitSuccess)]
                /\ UNCHANGED stderr
           ELSE /\ exit_code' = [exit_code EXCEPT ![p] = Some(ExitFailure)]
                /\ stderr' = Append(stderr, [line |-> "error", error |-> r.err])
    /\ UNCHANGED <<idVars, args, from_format, content, value, converted, ret, steps,
                   fs, stdin, stdin_read, stdout>>

Next ==
    \E p \in ProcIds :
        \/ ConvertResolve(p) \/ ConvertRead(p) \/ ConvertDecode(p)
        \/ ConvertEncode(p) \/ ConvertWrite(p)
        \/ ValidateResolve(p) \/ ValidateRead(p) \/ ValidateDecode(p)
        \/ FormatResolve(p) \/ FormatRead(p) \/ FormatDecode(p)
        \/ FormatEncode(p) \/ FormatWrite(p)
        \/ MainExit(p)

Spec == Init /\ [][Next]_vars

(***************************************************************************)
(* Two invocations at once, as two processes started side by side: each    *)
(* on its own input file and with its own output file, or the second the   *)
(* same command line as the first when that one writes no file.            *)
(***************************************************************************)
\* The command lines of an invocation on the file inp, its --output out.
PairArgs(inp, out) ==
    { [cmd |-> "convert", input_arg |-> Some(inp), input |-> inp,
       output |-> o, from |-> None, to |-> t, pretty |-> pr, verbose |-> FALSE] :
      o \in OptionOf({out}), t \in Format, pr \in BOOLEAN }
    \cup { [cmd |-> "validate", file |-> inp, format |-> None, verbose |-> FALSE,
            quiet |-> FALSE] }
    \cup { [cmd |-> "format", file |-> inp, indent |-> n, write |-> w, verbose |-> FALSE] :
           n \in {IndentMin, IndentMax}, w \in BOOLEAN }

InitPair ==
    /\ IdentIdle
    /\ \E a1 \in PairArgs(P_json, OutPath) :
       \E a2 \in PairArgs(P_yml, OutPath2)
                 \cup (IF a1.cmd = "validate" \/ (a1.cmd = "convert" /\ a1.output = None)
                          \/ (a1.cmd = "format" /\ ~a1.write)
                       THEN {a1} ELSE {}) :
       \E src1 \in OptionOf({T_nested, T_open_brace}), src2 \in OptionOf({T_yaml_nested}) :
          /\ args = [p \in ProcIds |-> IF p = "p1" THEN a1 ELSE a2]
          /\ pc = [p \in ProcIds |-> "start"]
          /\ from_format = [p \in ProcIds |-> None]
          /\ content = [p \in ProcIds |-> None]
          /\ value = [p \in ProcIds |-> None]
          /\ converted = [p \in ProcIds |-> None]
          /\ ret = [p \in ProcIds |-> None]
          /\ exit_code = [p \in ProcIds |-> None]
          /\ steps = [p \in ProcIds |-> <<>>]
          /\ fs = [q \in FilePaths |->
                      IF q = P_json THEN src1 ELSE IF q = P_yml THEN src2 ELSE None]
          /\ stdin = None
          /\ stdin_read = FALSE
          /\ stdout = <<>>
          /\ stderr = <<>>

SpecPair == InitPair /\ [][Next]_vars

(***************************************************************************)
(* Inputs of the format identifier: words, and paths made of up to         *)
(* MaxSegments words joined by '.'.                                        *)
(***************************************************************************)
MaxSegments == 3

Words ==
    { <<>>,
      <<"x">>,
      <<"j","s","o","n">>, <<"J","S","O","N">>, <<"J","s","o","n">>,
      <<"y","a","m","l">>, <<"Y","A","M","L">>,
      <<"y","m","l">>, <<"Y","m","L">>,
      <<"t","o","m","l">>, <<"t","O","m","L">>,
      <<"t","x","t">>,
      <<"j","s","o","n","x">>,
      <<"m","y">>,
      <<"d","i","r","/","c","o","n","f","i","g">> }

RECURSIVE JoinDots(_)
JoinDots(ws) ==
    IF Len(ws) = 1 THEN ws[1]
    ELSE ws[1] \o <<".">> \o JoinDots(Tail(ws))

IdentPaths ==
    UNION { {JoinDots(ws) : ws \in [1..n -> Words]} : n \in 1..MaxSegments }

IdentOps == {"from_str", "from_extension04", "from_extension"}

\* No command runs while the format identifier is exercised.
ProcsIdle ==
    /\ args = [p \in ProcIds |-> NoArgs]
    /\ pc = [p \in ProcIds |-> "idle"]
    /\ from_format = [p \in ProcIds |-> None]
    /\ content = [p \in ProcIds |-> None]
    /\ value = [p \in ProcIds |-> None]
    /\ converted = [p \in ProcIds |-> None]
    /\ ret = [p \in ProcIds |-> None]
    /\ exit_code = [p \in ProcIds |-> None]
    /\ steps = [p \in ProcIds |-> <<>>]
    /\ fs = [q \in FilePaths |-> None]
    /\ stdin = None
    /\ stdin_read = FALSE
    /\ stdout = <<>>
    /\ stderr = <<>>

InitIdent ==
    /\ idIn \in IdentPaths
    /\ idOp = "none"
    /\ idOut = None
    /\ ProcsIdle

CallFromStr ==
    /\ idOp = "none"
    /\ idOp' = "from_str"
    /\ idOut' = from_str(idIn)
    /\ UNCHANGED <<idIn, procVars, ioVars>>

CallFromExtension04 ==
    /\ idOp = "none"
    /\ idOp' = "from_extension04"
    /\ idOut' = from_extension04(idIn)
    /\ UNCHANGED <<idIn, procVars, ioVars>>

CallFromExtension ==
    /\ idOp = "none"
    /\ idOp' = "from_extension"
    /\ idOut' = from_extension(idIn)
    /\ UNCHANGED <<idIn, procVars, ioVars>>

NextIdent == CallFromStr \/ CallFromExtension04 \/ CallFromExtension

SpecIdent == InitIdent /\ [][NextIdent]_vars

(***************************************************************************)
(* Claims about the format identifier, checked under SpecIdent.            *)
(***************************************************************************)

\* s and w are the same word up to the case of their letters.
SameIgnoringCase(s, w) ==
    /\ Len(s) = Len(w)
    /\ \A i \in 1..Len(s) :
          \/ s[i] = w[i]
          \/ \E k \in DOMAIN UpperLetters :
                {s[i], w[i]} = {UpperLetters[k], LowerLetters[k]}

\* The format the contract of parse_name gives to the string s.
ParseNameContract(s) ==
    IF SameIgnoringCase(s, <<"j","s","o","n">>) THEN Some(Json)
    ELSE IF \/ SameIgnoringCase(s, <<"y","a","m","l">>)
            \/ SameIgnoringCase(s, <<"y","m","l">>) THEN Some(Yaml)
    ELSE IF SameIgnoringCase(s, <<"t","o","m","l">>) THEN Some(Toml)
    ELSE None

\* C1: Format::from_str is total and case-insensitive: it returns Json for
\* the spellings of "json", Yaml for those of "yaml" and "yml", Toml for
\* those of "toml", and no format for every other string, the empty one
\* included.
C1_FromStrContract ==
    idOp = "from_str" =>
        /\ idOut \in {None, Some(Json), Some(Yaml), Some(Toml)}
        /\ idOut = ParseNameContract(idIn)
        /\ (idIn = <<>> => idOut = None)

\* C1 witness: from_str was called on a mixed-case spelling and recognized it.
C1_Witness ==
    /\ idOp = "from_str"
    /\ idIn = <<"Y","m","L">>
    /\ idOut = Some(Yaml)

\* C2 (as claimed): from_extension returns no format for a path that holds
\* no '.' character.
C2_NoDotNoFormat ==
    (idOp \in {"from_extension", "from_extension04"} /\ DotPositions(idIn) = {})
        => idOut = None

\* The text after the last '.' of a path that holds one: the suffix t with
\* path = prefix . t and no '.' in t.
AfterLastDot(path) ==
    CHOOSE t \in {SubSeq(path, i + 1, Len(path)) : i \in 1..Len(path)} :
        /\ \A j \in 1..Len(t) : t[j] # "."
        /\ path[Len(path) - Len(t)] = "."

\* C3: for a path that holds a '.', from_extension returns what from_str
\* returns for the text after the last '.', whatever the case of its
\* letters; an empty or unrecognized last segment gives no format.
C3_ExtensionIsLastSegment ==
    (idOp \in {"from_extension", "from_extension04"} /\ DotPositions(idIn) # {})
        => /\ idOut = from_str(AfterLastDot(idIn))
           /\ idOut = ParseNameContract(AfterLastDot(idIn))
           /\ (idIn = <<"x",".","y","a","m","l">> => idOut = Some(Yaml))
           /\ (idIn = <<"x",".","y","m","l">> => idOut = Some(Yaml))
           /\ (idIn = <<"x",".","J","S","O","N">> => idOut = Some(Json))
           /\ (idIn = <<"x",".","x",".","t","o","m","l">> => idOut = Some(Toml))
           /\ (idIn = <<"x",".">> => idOut = None)
           /\ (idIn = <<"x",".","t","x","t">> => idOut = None)
           /\ (idIn = <<"m","y",".","d","i","r","/","c","o","n","f","i","g">>
                  => idOut = None)

\* C3 witness: the production from_extension was called on a path with two
\* dots whose last segment is an upper-case format name.
C3_Witness ==
    /\ idOp = "from_extension"
    /\ idIn = <<"j","s","o","n",".","x",".","Y","A","M","L">>
    /\ idOut = Some(Yaml)

(***************************************************************************)
(* Claims about the commands, checked under Spec.                          *)
(***************************************************************************)

\* Invocation p has done the step.
Done(p, step) == \E i \in DOMAIN steps[p] : steps[p][i] = step

\* run of invocation p returned an error of the kind.
Failed(p, kind) ==
    /\ IsSome(ret[p])
    /\ ~Unwrap(ret[p]).ok
    /\ Unwrap(ret[p]).err.kind = kind

\* run of invocation p returned Ok(()).
Succeeded(p) == IsSome(ret[p]) /\ Unwrap(ret[p]).ok

\* What the parser library of format f makes of the text.
Decoder(text, f) ==
    CASE f = Json -> serde_json_from_str(text, "json")
      [] f = Yaml -> serde_yml_from_str(text)
      [] f = Toml -> toml_from_str(text)

\* The name of a format as an error message gives it.
FormatLabel(f) == CASE f = Json -> "JSON" [] f = Yaml -> "YAML" [] f = Toml -> "TOML"

\* The explicit format argument of a command line: --from of convert,
\* --format of validate; format has none.
Explicit(a) ==
    IF a.cmd = "convert" THEN a.from
    ELSE IF a.cmd = "validate" THEN a.format
    ELSE None

\* The results printed on standard output so far.
ResultsPrinted == SelectSeq(stdout, LAMBDA l : l.line = "result")

\* C4: in convert and validate, an explicit format argument is the format
\* the input is decoded with, whatever the extension of the path says; the
\* extension decides only when no explicit format is given.
C4_ExplicitFormatWins ==
    \A p \in ProcIds :
        (args[p].cmd \in {"convert", "validate"} /\ Done(p, "resolve")) =>
            IF IsSome(Explicit(args[p]))
            THEN /\ from_format[p] = Explicit(args[p])
                 /\ ~Failed(p, "UnknownFormat")
                 /\ Done(p, "decode") =>
                       /\ Decoder(Unwrap(content[p]), Unwrap(Explicit(args[p]))).ok
                              <=> ~Failed(p, "Parse")
                       /\ Failed(p, "Parse") =>
                              Unwrap(ret[p]).err =
                                  Parse(FormatLabel(Unwrap(Explicit(args[p]))),
                                        Decoder(Unwrap(content[p]),
                                                Unwrap(Explicit(args[p]))).err)
                       /\ IsSome(value[p]) =>
                              Ok(Unwrap(value[p])) =
                                  convert_decode(Unwrap(content[p]),
                                                 Unwrap(Explicit(args[p])))
            ELSE InputOf(args[p]) # StdinPath =>
                     from_format[p] = from_extension(InputOf(args[p]))

\* C4 witness: convert was given --from json for a .yml file that holds YAML
\* text, and the text was rejected by the JSON parser.
C4_Witness ==
    /\ args["p1"].cmd = "convert"
    /\ args["p1"].input = P_yml
    /\ args["p1"].from = Some(Json)
    /\ content["p1"] = Some(T_yaml)
    /\ Failed("p1", "Parse")
    /\ Unwrap(ret["p1"]).err.format = "JSON"

\* C5 (as claimed): a command that has neither an explicit format nor a
\* format its input path gives ends with the UnknownFormat error, convert
\* on standard input included.
C5_AbsenceIsUnknownFormat ==
    \A p \in ProcIds :
        ( /\ args[p].cmd \in {"convert", "validate", "format"}
          /\ Done(p, "resolve")
          /\ ~IsSome(Explicit(args[p]))
          /\ ~IsSome(from_extension(InputOf(args[p]))) )
        => Failed(p, "UnknownFormat")

\* Invocation p is convert reading standard input.
StdinConvert(p) == args[p].cmd = "convert" /\ args[p].input = StdinPath

\* C6: convert on standard input needs --from.  Without it the command
\* fails at once: standard input is not read, no file and no result is
\* written.  With it, what was read from standard input is decoded with
\* that format.
C6_StdinRequiresFrom ==
    /\ [](\A p \in ProcIds :
            (StdinConvert(p) /\ Done(p, "resolve")) =>
                IF IsSome(args[p].from)
                THEN /\ from_format[p] = args[p].from
                     /\ IsSome(content[p]) => (stdin_read /\ content[p] = stdin)
                     /\ Done(p, "decode") =>
                           IF convert_decode(Unwrap(stdin), Unwrap(args[p].from)).ok
                           THEN Ok(Unwrap(value[p])) =
                                    convert_decode(Unwrap(stdin), Unwrap(args[p].from))
                           ELSE ret[p] =
                                    Some(convert_decode(Unwrap(stdin), Unwrap(args[p].from)))
                ELSE /\ IsSome(ret[p]) /\ ~Unwrap(ret[p]).ok
                     /\ steps[p] = <<"resolve">>
                     /\ ~stdin_read)
    /\ [][\A p \in ProcIds :
            (StdinConvert(p) /\ ~IsSome(args[p].from)) =>
                UNCHANGED <<stdin_read, fs, stdout>>]_vars

\* C6 witness: convert without an input argument and without --from has
\* failed, and the text waiting on standard input was not read.
C6_Witness ==
    /\ args["p1"].cmd = "convert"
    /\ args["p1"].input_arg = None
    /\ args["p1"].from = None
    /\ IsSome(stdin)
    /\ pc["p1"] = "returned"
    /\ ~Unwrap(ret["p1"]).ok
    /\ ~stdin_read

\* The file a command writes its result to, if it is a file: --output of
\* convert, the file itself for format --write.
SinkFile(a) ==
    IF a.cmd = "convert" THEN a.output
    ELSE IF a.cmd = "format" /\ a.write THEN Some(a.file)
    ELSE None

\* The complete result of invocation p: its Value, encoded.
Encoded(p) ==
    IF args[p].cmd = "convert"
    THEN convert_encode(Unwrap(value[p]), args[p].to, args[p].pretty)
    ELSE format_encode(Unwrap(value[p]), Unwrap(from_format[p]), args[p].indent)

\* A step in which invocation p hands its complete result to its sink, and
\* touches nothing else.
HandsOverResult(p) ==
    /\ pc[p] = "encoded"
    /\ Done(p, "decode") /\ Done(p, "encode")
    /\ IsSome(value[p]) /\ IsSome(converted[p])
    /\ Encoded(p) = Ok(Unwrap(converted[p]))
    /\ IF IsSome(SinkFile(args[p]))
       THEN /\ ResultsPrinted' = ResultsPrinted
            /\ \A q \in FilePaths \ {Unwrap(SinkFile(args[p]))} : fs'[q] = fs[q]
            /\ Unwrap(ret'[p]).ok => fs'[Unwrap(SinkFile(args[p]))] = converted[p]
       ELSE /\ fs' = fs
            /\ ResultsPrinted' =
                   Append(ResultsPrinted,
                          [line |-> "result", text |-> Unwrap(converted[p])])

C8_ValidateDecodesOnly ==
    /\ [](\A p \in ProcIds :
            args[p].cmd = "validate" =>
                /\ ~Done(p, "encode") /\ ~Done(p, "write")
                /\ value[p] = None /\ converted[p] = None
                /\ Done(p, "decode") =>
                       /\ Decoder(Unwrap(content[p]), Unwrap(from_format[p])).ok
                              <=> Succeeded(p)
                       /\ ~Decoder(Unwrap(content[p]), Unwrap(from_format[p])).ok
                              <=> Failed(p, "Parse")
                       /\ (from_format[p] = Some(Json) /\ content[p] = Some(T_empty_obj))
                              => Succeeded(p)
                       /\ (from_format[p] = Some(Json) /\ content[p] = Some(T_open_brace))
                              => Failed(p, "Parse"))
    /\ [][(\E p \in ProcIds : args[p].cmd = "validate") => fs' = fs]_vars

\* C8 witness: validate read "{" as JSON and returned a Parse error.
C8_Witness ==
    /\ args["p1"].cmd = "validate"
    /\ from_format["p1"] = Some(Json)
    /\ content["p1"] = Some(T_open_brace)
    /\ Done("p1", "decode")
    /\ Failed("p1", "Parse")

\* C9: in convert, validate and format, a text its parser rejects makes the
\* command return Error::Parse with the name of the source format and the
\* parser's own diagnostic; Error::Parse is returned for no other reason.
C9_DecodeFailureIsParseError ==
    \A p \in ProcIds :
        /\ Done(p, "decode") =>
              /\ Failed(p, "Parse")
                    <=> ~Decoder(Unwrap(content[p]), Unwrap(from_format[p])).ok
              /\ Failed(p, "Parse") =>
                    /\ Unwrap(ret[p]).err.format = FormatLabel(Unwrap(from_format[p]))
                    /\ Unwrap(ret[p]).err.source =
                           Decoder(Unwrap(content[p]), Unwrap(from_format[p])).err
        /\ Failed(p, "Parse") => Done(p, "decode")

\* C9 witness: format read a .TOML file that holds JSON text and returned
\* Error::Parse for TOML.
C9_Witness ==
    /\ args["p1"].cmd = "format"
    /\ args["p1"].file = P_TOML
    /\ content["p1"] = Some(T_obj)
    /\ Failed("p1", "Parse")
    /\ Unwrap(ret["p1"]).err.format = "TOML"

\* Invocation p is convert to TOML and has decoded a Value that holds a Null.
NullToToml(p) ==
    /\ args[p].cmd = "convert" /\ args[p].to = Toml
    /\ IsSome(value[p]) /\ ContainsNull(Unwrap(value[p]))

\* C10: convert to TOML of a Value that holds a Null, at the root, in a
\* mapping or in a sequence, fails with Error::Convert: no text is encoded,
\* no file is written and no result is printed.
C10_NullToTomlFails ==
    /\ [](\A p \in ProcIds :
            NullToToml(p) =>
                /\ converted[p] = None
                /\ ~Done(p, "write")
                /\ ~Succeeded(p)
                /\ Done(p, "encode") => Failed(p, "Convert"))
    /\ [][\A p \in ProcIds :
            NullToToml(p) => (fs' = fs /\ ResultsPrinted' = ResultsPrinted)]_vars

\* C10 witness: convert to TOML decoded a mapping with a null inside a
\* sequence, and returned Error::Convert.
C10_Witness ==
    /\ args["p1"].cmd = "convert"
    /\ args["p1"].to = Toml
    /\ content["p1"] = Some(T_nested)
    /\ IsSome(value["p1"])
    /\ ContainsNull(Unwrap(value["p1"]))
    /\ Failed("p1", "Convert")

LastStep(p) == steps[p][Len(steps[p])]

\* The path a read failure of invocation p names: the input path, or
\* "stdin" for standard input.
ReadPath(p) ==
    IF InputOf(args[p]) = StdinPath /\ args[p].cmd = "convert"
    THEN <<"s","t","d","i","n">>
    ELSE InputOf(args[p])

\* The input of invocation p cannot be read.
InputUnreadable(p) ==
    IF InputOf(args[p]) = StdinPath /\ args[p].cmd = "convert"
    THEN ~IsSome(stdin)
    ELSE ~IsSome(fs[InputOf(args[p])])

\* C12: a run that failed names its failure by where it happened: FileRead,
\* with the path read, exactly when the input could not be read; FileWrite,
\* with the path written, exactly when the write failed; Parse, Convert or
\* UnknownFormat exactly when format resolution, decode or encode failed.
C12_IoAndContentErrorsApart ==
    \A p \in ProcIds :
        (IsSome(ret[p]) /\ ~Unwrap(ret[p]).ok) =>
            /\ Unwrap(ret[p]).err.kind \in
                   {"FileRead", "FileWrite", "Parse", "Convert", "UnknownFormat"}
            /\ Failed(p, "FileRead") <=> LastStep(p) = "read"
            /\ Failed(p, "FileRead") =>
                   /\ InputUnreadable(p)
                   /\ Unwrap(ret[p]).err.path = ReadPath(p)
            /\ Failed(p, "FileWrite") <=> LastStep(p) = "write"
            /\ Failed(p, "FileWrite") =>
                   /\ IsSome(SinkFile(args[p]))
                   /\ Unwrap(ret[p]).err.path = Unwrap(SinkFile(args[p]))
            /\ (Failed(p, "Parse") \/ Failed(p, "Convert") \/ Failed(p, "UnknownFormat"))
                   <=> LastStep(p) \in {"resolve", "decode", "encode"}
            /\ LastStep(p) \in {"decode", "encode"} => ~InputUnreadable(p)

\* C12 witness: format --write decoded and encoded its file, the write
\* failed, and the run returned FileWrite with the path of the file.
C12_Witness ==
    /\ args["p1"].cmd = "format"
    /\ args["p1"].write
    /\ IsSome(converted["p1"])
    /\ Failed("p1", "FileWrite")
    /\ Unwrap(ret["p1"]).err.path = args["p1"].file

(***************************************************************************)
(* Claims about whole runs.                                                *)
(***************************************************************************)

\* The error lines main printed on standard error.
ErrorsPrinted == SelectSeq(stderr, LAMBDA l : l.line = "error")

\* C13: the exit status is 0 exactly when the command returned Ok and 1
\* for every error; the error is printed on standard error as the process
\* exits; what the command returned is not changed, no step of it is run
\* again, and the one step open to a command that has returned is the exit.
C13_ExitCodeMirrorsResult ==
    /\ [](\A p \in ProcIds :
            /\ IsSome(exit_code[p]) <=> pc[p] = "exited"
            /\ pc[p] = "exited" =>
                  /\ IsSome(ret[p])
                  /\ exit_code[p] = Some(0) <=> Unwrap(ret[p]).ok
                  /\ exit_code[p] = Some(1) <=> ~Unwrap(ret[p]).ok
                  /\ ~Unwrap(ret[p]).ok =>
                         \E i \in DOMAIN ErrorsPrinted :
                             ErrorsPrinted[i].error = Unwrap(ret[p]).err
            /\ \A i, j \in DOMAIN steps[p] : steps[p][i] = steps[p][j] => i = j)
    /\ [](Len(ErrorsPrinted) =
            Cardinality({p \in ProcIds : pc[p] = "exited" /\ ~Unwrap(ret[p]).ok}))
    /\ [][\A p \in ProcIds :
            /\ IsSome(ret[p]) => (ret'[p] = ret[p] /\ steps'[p] = steps[p])
            /\ pc[p] = "exited" => (pc'[p] = "exited" /\ exit_code'[p] = exit_code[p])]_vars
    /\ [](\A p \in ProcIds : pc[p] = "returned" => ENABLED MainExit(p))
    /\ [][\A p \in ProcIds :
            (pc[p] = "returned" /\ pc'[p] # pc[p]) => pc'[p] = "exited"]_vars

\* C13 witness: a command returned Error::Parse and the process has exited
\* with status 1, the error printed on standard error.
C13_Witness ==
    /\ pc["p1"] = "exited"
    /\ Failed("p1", "Parse")
    /\ exit_code["p1"] = Some(1)
    /\ Len(ErrorsPrinted) = 1

\* The Values format f can express: TOML has no null and its document is a
\* table; JSON and YAML express every Value.
Expressible(val, f) == f = Toml => (val.t = "Map" /\ ~ContainsNull(val))

C15_FormatIdempotent ==
    \A p \in ProcIds :
        (args[p].cmd = "format" /\ IsSome(converted[p])) =>
            format_content(Unwrap(converted[p]), Unwrap(from_format[p]), args[p].indent)
                = Ok(Unwrap(converted[p]))

\* C15 witness: format has produced a JSON text that differs from its
\* input, with an indent other than the default.
C15_Witness ==
    /\ args["p1"].cmd = "format"
    /\ args["p1"].indent = 3
    /\ from_format["p1"] = Some(Json)
    /\ content["p1"] = Some(T_nested)
    /\ IsSome(converted["p1"])
    /\ converted["p1"] # content["p1"]

\* Whether position n of a JSON text lies inside a string; the scan is at
\* position i, inside a string or not.
RECURSIVE InsideString(_, _, _, _)
InsideString(s, i, n, inStr) ==
    IF i >= n THEN inStr
    ELSE IF inStr /\ s[i] = "\\" THEN InsideString(s, i + 2, n, TRUE)
    ELSE IF s[i] = "\"" THEN InsideString(s, i + 1, n, ~inStr)
    ELSE InsideString(s, i + 1, n, inStr)

\* The brackets and braces open in front of position n of a JSON text.
RECURSIVE NestingAt(_, _)
NestingAt(s, n) ==
    IF n <= 1 THEN 0
    ELSE NestingAt(s, n - 1)
         + (IF InsideString(s, 1, n - 1, FALSE) THEN 0
            ELSE IF s[n - 1] \in {"{", "["} THEN 1
            ELSE IF s[n - 1] \in {"}", "]"} THEN -1
            ELSE 0)

\* The positions at which the lines of a text start.
LineStarts(s) == {i \in DOMAIN s : i = 1 \/ s[i - 1] = "\n"}

\* The number of spaces from position i on.
RECURSIVE LeadingSpaces(_, _)
LeadingSpaces(s, i) ==
    IF i <= Len(s) /\ s[i] = " " THEN 1 + LeadingSpaces(s, i + 1) ELSE 0

\* The nesting depth of the line that starts at position i: a line that
\* closes a container lies at the depth of the line that opened it.
LineDepth(s, i) ==
    NestingAt(s, i)
    - (IF i + LeadingSpaces(s, i) <= Len(s) /\ s[i + LeadingSpaces(s, i)] \in {"}", "]"}
       THEN 1 ELSE 0)

\* Whether a JSON text is laid out in pretty mode: outside strings, a comma
\* ends its line, and so does a bracket that opens a container with
\* something in it.
PrettyLayout(s) ==
    \A i \in DOMAIN s :
        (~InsideString(s, 1, i, FALSE) /\ i < Len(s)) =>
            /\ s[i] = "," => s[i + 1] = "\n"
            /\ s[i] = "{" => s[i + 1] \in {"\n", "}"}
            /\ s[i] = "[" => s[i + 1] \in {"\n", "]"}

\* C16: the JSON text format produces is in pretty mode, and each of its
\* lines starts with as many spaces as its nesting depth times --indent,
\* for every --indent in 1..8; {"a":1} with --indent 4 has four spaces in
\* front of "a".
C16_JsonIndentPerDepth ==
    \A p \in ProcIds :
        (args[p].cmd = "format" /\ from_format[p] = Some(Json) /\ IsSome(converted[p])) =>
            /\ PrettyLayout(Unwrap(converted[p]))
            /\ \A i \in LineStarts(Unwrap(converted[p])) :
                   LeadingSpaces(Unwrap(converted[p]), i)
                       = LineDepth(Unwrap(converted[p]), i) * args[p].indent
            /\ (content[p] = Some(T_obj) /\ args[p].indent = 4) =>
                   converted[p] = Some(<<"{", "\n", " ", " ", " ", " ", "\"", "a", "\"", ":",
                                         " ", "1", "\n", "}">>)

\* C16 witness: format has laid out a JSON text with two levels of nesting
\* at --indent 4, and a line of it starts with eight spaces.
C16_Witness ==
    /\ args["p1"].cmd = "format"
    /\ args["p1"].indent = 4
    /\ from_format["p1"] = Some(Json)
    /\ content["p1"] = Some(T_nested)
    /\ IsSome(converted["p1"])
    /\ \E i \in LineStarts(Unwrap(converted["p1"])) :
           /\ LineDepth(Unwrap(converted["p1"]), i) = 2
           /\ LeadingSpaces(Unwrap(converted["p1"]), i) = 8

\* C17: format uses --indent for a TOML document as it does for a JSON
\* document: each line of the TOML text it produces starts with as many
\* spaces as its nesting depth times --indent.
C17_TomlIndentHonoured ==
    \A p \in ProcIds :
        (args[p].cmd = "format" /\ from_format[p] = Some(Toml) /\ IsSome(converted[p])) =>
            \A i \in LineStarts(Unwrap(converted[p])) :
                LeadingSpaces(Unwrap(converted[p]), i)
                    = LineDepth(Unwrap(converted[p]), i) * args[p].indent

\* What decoding and encoding made of the input of invocation p: the text
\* produced, or the error run returned before it had one.
Outcome(p) == IF IsSome(converted[p]) THEN Ok(Unwrap(converted[p])) ELSE Unwrap(ret[p])

\* C18: what a convert to YAML makes of its input is what convert makes of
\* it with the other setting of --pretty, the same text or the same error;
\* what format makes of a YAML file is what format_content makes of it with
\* every other --indent.
C18_YamlSingleStyle ==
    \A p \in ProcIds :
        (Done(p, "decode") /\ pc[p] \in {"returned", "exited"}) =>
            /\ (args[p].cmd = "convert" /\ args[p].to = Yaml) =>
                  Outcome(p) = convert(Unwrap(content[p]), Unwrap(from_format[p]), Yaml,
                                       ~args[p].pretty)
            /\ (args[p].cmd = "format" /\ from_format[p] = Some(Yaml)) =>
                  \A j \in IndentMin..IndentMax :
                      Outcome(p) = format_content(Unwrap(content[p]), Yaml, j)

\* C18 witness: a convert from JSON to YAML without --pretty has produced a
\* text of several lines.
C18_Witness ==
    /\ args["p1"].cmd = "convert"
    /\ args["p1"].to = Yaml
    /\ ~args["p1"].pretty
    /\ from_format["p1"] = Some(Json)
    /\ content["p1"] = Some(T_nested)
    /\ pc["p1"] = "returned"
    /\ IsSome(converted["p1"])
    /\ Cardinality(LineStarts(Unwrap(converted["p1"]))) > 2

\* The place of a step in the order of a run.
StepRank(step) ==
    CASE step = "resolve" -> 1
      [] step = "read" -> 2
      [] step = "decode" -> 3
      [] step = "encode" -> 4
      [] step = "write" -> 5

\* The command line of invocation p names a file and gives no format that
\* resolves: no explicit format, and no extension that names one.
Unresolvable(p) ==
    /\ args[p].cmd \in {"convert", "validate", "format"}
    /\ InputOf(args[p]) # StdinPath
    /\ Explicit(args[p]) = None
    /\ from_extension(InputOf(args[p])) = None

\* C20: a run on a file whose format does not resolve returns UnknownFormat
\* with nothing read, whether the file exists or not; the steps of every
\* run come in the order resolve, read, decode, encode, write, each with
\* the result of the one before it in hand; the read takes the whole input;
\* and a run that has returned takes no further step.
C20_ResolveBeforeRead ==
    /\ [](\A p \in ProcIds :
            /\ \A i, j \in DOMAIN steps[p] :
                   i < j => StepRank(steps[p][i]) < StepRank(steps[p][j])
            /\ steps[p] # <<>> => steps[p][1] = "resolve"
            /\ Done(p, "read") => IsSome(from_format[p])
            /\ Done(p, "decode") => (Done(p, "read") /\ IsSome(content[p]))
            /\ Done(p, "encode") => (Done(p, "decode") /\ IsSome(value[p]))
            /\ Done(p, "write") => (Done(p, "encode") /\ IsSome(converted[p]))
            /\ Failed(p, "UnknownFormat") =>
                   (steps[p] = <<"resolve">> /\ content[p] = None /\ ~stdin_read)
            /\ (Unresolvable(p) /\ IsSome(ret[p])) =>
                   (Failed(p, "UnknownFormat") /\ ~Failed(p, "FileRead")))
    /\ [][\A p \in ProcIds :
            /\ (IsSome(ret[p]) /\ ~Unwrap(ret[p]).ok) => steps'[p] = steps[p]
            /\ (content[p] = None /\ content'[p] # None) =>
                   content'[p] = (IF InputOf(args[p]) = StdinPath THEN stdin
                                  ELSE fs[InputOf(args[p])])]_vars

\* C20 witness: format was run on a missing file whose extension names no
\* format, and returned UnknownFormat after the one step of resolving.
C20_Witness ==
    /\ args["p1"].cmd = "format"
    /\ args["p1"].file = P_txt
    /\ fs[P_txt] = None
    /\ Failed("p1", "UnknownFormat")
    /\ steps["p1"] = <<"resolve">>

(***************************************************************************)
(* Claims about invocations side by side, checked under SpecPair.          *)
(***************************************************************************)

\* The format a command line on a file resolves to.
SoloFormat(a) ==
    IF a.cmd = "format" THEN from_extension(a.file)
    ELSE OrElse(Explicit(a), from_extension(InputOf(a)))

\* What an invocation on a file makes, on its own, of the command line a
\* and the content src of its input, nothing when the file is missing: the
\* text it has to hand over, or the error it returns.
SoloProduct(a, src) ==
    IF SoloFormat(a) = None THEN Err(UnknownFormat(InputOf(a)))
    ELSE IF src = None THEN Err(FileRead(InputOf(a), IoNotFound))
    ELSE CASE a.cmd = "convert" -> convert(Unwrap(src), Unwrap(SoloFormat(a)), a.to, a.pretty)
           [] a.cmd = "validate" -> validate_decode(Unwrap(src), Unwrap(SoloFormat(a)))
           [] a.cmd = "format" -> format_content(Unwrap(src), Unwrap(SoloFormat(a)), a.indent)

\* The local state of invocation p.
Locals(p) ==
    <<args[p], pc[p], from_format[p], content[p], value[p], converted[p], ret[p],
      exit_code[p], steps[p]>>

\* C19: of two invocations that run side by side on different files, each
\* reads the content of its own input, returns what it returns on its own
\* for its command line and that content, and leaves in its output file, or
\* prints, the text it produces on its own; the same command line run twice
\* on one unchanged input returns the same both times; a step of one
\* invocation changes neither the local state of the other nor any file
\* but its own output file.
C19_InvocationsIndependent ==
    /\ [](\A p \in ProcIds :
            /\ (IsSome(content[p]) /\ ~Done(p, "write")) =>
                   content[p] = fs[InputOf(args[p])]
            /\ IsSome(ret[p]) =>
                   IF ~SoloProduct(args[p], content[p]).ok
                   THEN Unwrap(ret[p]) = SoloProduct(args[p], content[p])
                   ELSE IF IsSome(SinkFile(args[p]))
                   THEN \/ /\ Unwrap(ret[p]) = Ok(Unit)
                           /\ fs[Unwrap(SinkFile(args[p]))]
                                 = Some(SoloProduct(args[p], content[p]).val)
                        \/ Unwrap(ret[p])
                              = Err(FileWrite(Unwrap(SinkFile(args[p])), IoWriteFailed))
                   ELSE /\ Unwrap(ret[p]) = Ok(Unit)
                        /\ args[p].cmd # "validate" =>
                               \E i \in DOMAIN ResultsPrinted :
                                   ResultsPrinted[i].text = SoloProduct(args[p], content[p]).val)
    /\ [](\A p, q \in ProcIds :
            (args[p] = args[q] /\ IsSome(ret[p]) /\ IsSome(ret[q])) =>
                (ret[p] = ret[q] /\ converted[p] = converted[q]))
    /\ [][/\ \A p \in ProcIds : pc'[p] = pc[p] => Locals(p)' = Locals(p)
          /\ \A path \in FilePaths :
                 fs'[path] # fs[path] =>
                     \E p \in ProcIds : pc'[p] # pc[p] /\ SinkFile(args[p]) = Some(path)]_vars

\* C19 witness: a convert has written its output file and returned while a
\* format --write on another file is between its steps.
C19_Witness ==
    /\ args["p1"].cmd = "convert"
    /\ args["p1"].to = Yaml
    /\ Succeeded("p1")
    /\ fs[OutPath] = converted["p1"]
    /\ IsSome(fs[OutPath])
    /\ args["p2"].cmd = "format"
    /\ args["p2"].write
    /\ pc["p2"] = "decoded"
    /\ content["p2"] = Some(T_yaml_nested)

(***************************************************************************)
(* Claims that compare the three commands, checked under Spec.             *)
(***************************************************************************)

\* The result is Error::Parse.
IsParseError(r) == ~r.ok /\ r.err.kind = "Parse"

\* What convert or format returns, r, agrees with what validate returns, v,
\* on the same text: Error::Parse together, and then the same error; where
\* validate accepts, a failure is Error::Convert.
AgreesOnParse(v, r) ==
    /\ IsParseError(v) <=> IsParseError(r)
    /\ IsParseError(r) => r = v
    /\ (v.ok /\ ~r.ok) => r.err.kind = "Convert"

\* C21: on the text and format of any run, validate, convert (to every
\* target, pretty or not) and format (with every indent) report Error::Parse
\* together or not at all, and with the same error; on a text validate
\* accepts, convert and format fail, if they fail, with Error::Convert; and
\* the run itself returns Error::Parse exactly when validate does on its
\* text.
C21_CommandsAgreeOnParse ==
    \A p \in ProcIds :
        /\ pc[p] = "read" =>
              /\ \A n \in IndentMin..IndentMax :
                    AgreesOnParse(validate_decode(Unwrap(content[p]), Unwrap(from_format[p])),
                                  format_content(Unwrap(content[p]), Unwrap(from_format[p]), n))
              /\ \A to \in Format, pretty \in BOOLEAN :
                    AgreesOnParse(validate_decode(Unwrap(content[p]), Unwrap(from_format[p])),
                                  convert(Unwrap(content[p]), Unwrap(from_format[p]), to, pretty))
        /\ (Done(p, "decode") /\ IsSome(ret[p])) =>
              (Failed(p, "Parse")
                  <=> IsParseError(validate_decode(Unwrap(content[p]), Unwrap(from_format[p]))))

\* C21 witness: validate has accepted a JSON text with a null in it, which
\* convert to TOML refuses with Error::Convert.
C21_Witness ==
    /\ args["p1"].cmd = "validate"
    /\ from_format["p1"] = Some(Json)
    /\ content["p1"] = Some(T_obj_null)
    /\ Succeeded("p1")
    /\ ~convert(T_obj_null, Json, Toml, FALSE).ok
    /\ convert(T_obj_null, Json, Toml, FALSE).err.kind = "Convert"

=============================================================================
